---- MODULE Spec2Model ----
(***************************************************************************)
(* A model of the FCP7 XML <-> OpenTimelineIO translator (package fcp7xml). *)
(*                                                                         *)
(* The Encoder (Encode, convertTimeline, convertTracks, convertTrack,      *)
(* convertClip, ...) and the Decoder (Decode, convertSequence,             *)
(* convertTrack, convertClipItem, ...) are pure functions of their input,  *)
(* so each is an operator, computed the way the Go code computes it, and   *)
(* the two actions EncodeCall and DecodeCall apply them to a byte stream   *)
(* (a bytes.Buffer) and a timeline, the way the tests and the command-line *)
(* tool chain them.                                                        *)
(*                                                                         *)
(* Conventions.  A Go pointer or optional value is a sequence of length 0  *)
(* (nil) or 1.  A float64 frame count is an exact rational                 *)
(* [num, den]; a float64 frame rate is an exact rational [n, d].           *)
(* An AnyDictionary is a function from its keys to its values.             *)
(***************************************************************************)
EXTENDS Integers, Sequences, FiniteSets, TLC

VARIABLES
    timeline,   \* the caller's *Timeline: << >> is nil, <<t>> a timeline
    stream,     \* the bytes.Buffer the Encoder writes and the Decoder reads
    err,        \* the error of the last call, "" for nil
    todo,       \* the calls the caller still makes, in order
    hist,       \* what every call so far was given and what it returned
    rejects,    \* the names of the children Track.AppendChild refuses
    calls,      \* independent callers: the call each one makes, step by step
    outputs     \* independent callers: what each io.Writer has received

vars == <<timeline, stream, err, todo, hist, rejects, calls, outputs>>

\* No independent callers: one caller chaining its calls
NoCalls == calls = << >> /\ outputs = << >>

\* --------------------------------------------------------------- helpers

None == << >>

Some(x) == <<x>>

Get(opt) == opt[1]

Last(s) == s[Len(s)]

EmptyDict == << >>

Has(m, k) == k \in DOMAIN m

\* The sequences over S of length at most n.
SeqUpTo(S, n) == UNION {[1..k -> S] : k \in 0..n}

\* ------------------------------------------------- opentime (rational time)

\* float64(x) for an integer x
Whole(x) == [num |-> x, den |-> 1]

\* int64(v): Go's conversion truncates toward zero
Trunc(v) ==
    IF v.num >= 0 THEN v.num \div v.den ELSE -((-v.num) \div v.den)

ValueAdd(a, b) ==
    IF a.den = b.den THEN [num |-> a.num + b.num, den |-> a.den]
    ELSE [num |-> a.num * b.den + b.num * a.den, den |-> a.den * b.den]

NewRationalTime(v, r) == [value |-> v, rate |-> r]

NewTimeRange(s, d) == [start_time |-> s, duration |-> d]

FPS(n, d) == [n |-> n, d |-> d]

\* ------------------------------------------------------ shared helpers

\* isNTSCRate with a tolerance of 1 in place of 0.01
isNTSCRate_wide(rate) ==
    \E c \in {24000, 30000, 60000} :
        LET diff == 1001 * rate.n - c * rate.d
            absd == IF diff < 0 THEN -diff ELSE diff
        IN  absd < 1001 * rate.d

\* isNTSCRate without 24000/1001 in its list of rates
isNTSCRate_two(rate) ==
    \E c \in {30000, 60000} :
        LET diff == 1001 * rate.n - c * rate.d
            absd == IF diff < 0 THEN -diff ELSE diff
        IN  absd <= 11 * rate.d /\ 100 * absd < 1001 * rate.d

\* isNTSCRate: |rate - c| < 0.01 for c in 24000/1001, 30000/1001, 60000/1001.
isNTSCRate(rate) ==
    \E c \in {24000, 30000, 60000} :
        LET diff == 1001 * rate.n - c * rate.d
            absd == IF diff < 0 THEN -diff ELSE diff
        IN  absd <= 11 * rate.d /\ 100 * absd < 1001 * rate.d

IDChars ==
    {"a", "b", "c", "d", "e", "f", "g", "h", "i", "j", "k", "l", "m",
     "n", "o", "p", "q", "r", "s", "t", "u", "v", "w", "x", "y", "z",
     "A", "B", "C", "D", "E", "F", "G", "H", "I", "J", "K", "L", "M",
     "N", "O", "P", "Q", "R", "S", "T", "U", "V", "W", "X", "Y", "Z",
     "0", "1", "2", "3", "4", "5", "6", "7", "8", "9", "-", "_"}

\* The loop of sanitizeID dropping the spaces
RECURSIVE sanitizeLoop_dropSpace(_, _)
sanitizeLoop_dropSpace(s, i) ==
    IF i > Len(s) THEN << >>
    ELSE (IF s[i] \in IDChars THEN <<s[i]>> ELSE << >>) \o sanitizeLoop_dropSpace(s, i + 1)

RECURSIVE sanitizeLoop(_, _)
sanitizeLoop(s, i) ==
    IF i > Len(s) THEN << >>
    ELSE (IF s[i] \in IDChars THEN <<s[i]>>
          ELSE IF s[i] = " " THEN <<"_">>
          ELSE << >>) \o sanitizeLoop(s, i + 1)

\* sanitizeID; a string is the sequence of its characters
sanitizeID(s) ==
    LET result == sanitizeLoop(s, 1)
    IN  IF result = << >> THEN <<"f", "i", "l", "e">> ELSE result

\* A URL is [scheme, path]; a path is the sequence of its segments, the
\* first one "/" when the path is absolute.  The empty string is EmptyURL.
EmptyURL == [scheme |-> "", path |-> << >>]

isFileURL(u) == u.scheme = "file"

\* filepath.Abs of the URL text taken as a file path: a path that is not
\* absolute is joined to the working directory.
FilepathAbs(u) ==
    LET raw == IF u.scheme = "" THEN u.path ELSE <<u.scheme>> \o u.path
    IN  IF raw # << >> /\ raw[1] = "/" THEN raw ELSE <<"/", "cwd">> \o raw

\* ----------------------------------- the timeline model API the code reads

\* Clip.AvailableRange() answering an empty range where it has none to give
ClipAvailableRange_orEmpty(clip) ==
    IF clip.media_reference = None \/ Get(clip.media_reference).available_range = None
    THEN Some(NewTimeRange(NewRationalTime(Whole(0), FPS(24, 1)),
                           NewRationalTime(Whole(0), FPS(24, 1))))
    ELSE Get(clip.media_reference).available_range

\* Clip.AvailableRange(): the media reference's available range, an error
\* (None) when there is no reference or it has no available range.
ClipAvailableRange(clip) ==
    IF clip.media_reference = None THEN None
    ELSE Get(clip.media_reference).available_range

\* Clip.Duration(): the source range's duration, else the available range's.
ClipDuration(clip) ==
    IF clip.source_range # None THEN Some(Get(clip.source_range).duration)
    ELSE IF ClipAvailableRange(clip) # None
         THEN Some(Get(ClipAvailableRange(clip)).duration)
         ELSE None

\* Timeline.VideoTracks() / AudioTracks(): the tracks of one kind, in order
TracksOfKind(t, kind) == SelectSeq(t.tracks, LAMBDA tr : tr.kind = kind)

\* ---------------------------------------------------------------- Encoder

\* metadataToParameter
metadataToParameter(metadata) ==
    [parameterid |-> IF Has(metadata, "parameterid") THEN metadata.parameterid ELSE "",
     name        |-> IF Has(metadata, "name") THEN metadata.name ELSE "",
     value       |-> IF Has(metadata, "value") THEN metadata.value ELSE "",
     valueid     |-> IF Has(metadata, "valueid") THEN metadata.valueid ELSE "",
     valuemin    |-> IF Has(metadata, "valuemin") THEN Some(metadata.valuemin) ELSE None,
     valuemax    |-> IF Has(metadata, "valuemax") THEN Some(metadata.valuemax) ELSE None,
     valuelist   |-> IF Has(metadata, "valuelist") THEN metadata.valuelist ELSE ""]

\* metadataToEffect
metadataToEffect(metadata) ==
    [name           |-> IF Has(metadata, "name") THEN metadata.name ELSE "",
     effectid       |-> IF Has(metadata, "effectid") THEN metadata.effectid ELSE "",
     effecttype     |-> IF Has(metadata, "effecttype") THEN metadata.effecttype ELSE "",
     mediatype      |-> IF Has(metadata, "mediatype") THEN metadata.mediatype ELSE "",
     effectcategory |-> IF Has(metadata, "effectcategory") THEN metadata.effectcategory ELSE "",
     duration       |-> IF Has(metadata, "duration") THEN metadata.duration ELSE 0,
     startratio     |-> IF Has(metadata, "startratio") THEN Some(metadata.startratio) ELSE None,
     endratio       |-> IF Has(metadata, "endratio") THEN Some(metadata.endratio) ELSE None,
     reverse        |-> IF Has(metadata, "reverse") THEN Some(metadata.reverse) ELSE None,
     parameter      |-> IF Has(metadata, "parameters")
                        THEN [i \in 1..Len(metadata.parameters) |->
                                 metadataToParameter(metadata.parameters[i])]
                        ELSE << >>]

\* metadataToEffects
metadataToEffects(metadataArray) ==
    [i \in 1..Len(metadataArray) |-> metadataToEffect(metadataArray[i])]

\* metadataToFilters
metadataToFilters(metadataArray) ==
    [i \in 1..Len(metadataArray) |->
        LET meta == metadataArray[i]
        IN  [enabled |-> IF Has(meta, "enabled") THEN Some(meta.enabled) ELSE None,
             start   |-> IF Has(meta, "start") THEN meta.start ELSE 0,
             end     |-> IF Has(meta, "end") THEN meta.end ELSE 0,
             effect  |-> IF Has(meta, "effect")
                         THEN Some(metadataToEffect(meta.effect)) ELSE None]]

\* convertMarkerToFCP without the colour of the marker
convertMarkerToFCP_noColor(marker) ==
    LET inPoint == Trunc(marker.marked_range.start_time.value)
    IN  [name    |-> marker.name,
         comment |-> marker.comment,
         in      |-> inPoint,
         out     |-> inPoint + Trunc(marker.marked_range.duration.value),
         color   |-> None]

\* convertMarkerToFCP
convertMarkerToFCP(marker) ==
    LET markedRange == marker.marked_range
        inPoint  == Trunc(markedRange.start_time.value)
        outPoint == inPoint + Trunc(markedRange.duration.value)
        metadata == marker.metadata
    IN  [name    |-> marker.name,
         comment |-> marker.comment,
         in      |-> inPoint,
         out     |-> outPoint,
         color   |-> IF Has(metadata, "fcp7xml_color")
                     THEN LET colorMap == metadata.fcp7xml_color
                          IN  Some([red   |-> IF Has(colorMap, "red") THEN colorMap.red ELSE 0,
                                    green |-> IF Has(colorMap, "green") THEN colorMap.green ELSE 0,
                                    blue  |-> IF Has(colorMap, "blue") THEN colorMap.blue ELSE 0,
                                    alpha |-> IF Has(colorMap, "alpha") THEN colorMap.alpha ELSE 0])
                     ELSE None]

\* convertMediaReference: it has no failing path, the error is always nil
convertMediaReference(ref, rate) ==
    LET external == ref.kind = "ExternalReference"
        targetURL == ref.target_url
    IN  [id       |-> <<"f", "i", "l", "e", "-">> \o sanitizeID(ref.name),
         name     |-> ref.name,
         rate     |-> rate,
         pathurl  |-> IF external /\ targetURL # EmptyURL
                      THEN (IF isFileURL(targetURL) THEN targetURL
                            ELSE [scheme |-> "file", path |-> FilepathAbs(targetURL)])
                      ELSE EmptyURL,
         duration |-> IF external /\ ref.available_range # None
                      THEN Trunc(Get(ref.available_range).duration.value)
                      ELSE 0]

\* convertClip: [ok, item]; ok is FALSE when the clip has no source range
\* and no available range
convertClip(clip, rate, startPosition) ==
    LET sr == IF clip.source_range # None THEN clip.source_range
              ELSE ClipAvailableRange(clip)
    IN  IF sr = None THEN [ok |-> FALSE, item |-> None]
        ELSE
        LET sourceRange == Get(sr)
            inPoint  == Trunc(sourceRange.start_time.value)
            duration == Trunc(sourceRange.duration.value)
            outPoint == inPoint + duration
            metadata == clip.metadata
        IN  [ok   |-> TRUE,
             item |-> Some(
               [id       |-> IF Has(metadata, "fcp7xml_id") THEN metadata.fcp7xml_id ELSE "",
                name     |-> clip.name,
                enabled  |-> Some(clip.enabled),
                duration |-> duration,
                rate     |-> rate,
                start    |-> startPosition,
                end      |-> startPosition + duration,
                in       |-> inPoint,
                out      |-> outPoint,
                file     |-> IF clip.media_reference # None
                             THEN Some(convertMediaReference(Get(clip.media_reference), rate))
                             ELSE None,
                sequence |-> None,
                filter   |-> IF Has(metadata, "fcp7xml_filters")
                             THEN metadataToFilters(metadata.fcp7xml_filters) ELSE << >>,
                effect   |-> IF Has(metadata, "fcp7xml_effects")
                             THEN metadataToEffects(metadata.fcp7xml_effects) ELSE << >>,
                marker   |-> [i \in 1..Len(clip.markers) |->
                                 convertMarkerToFCP(clip.markers[i])]])]

\* convertToGenerator taking the presence of the key for the flag
convertToGenerator_anyValue(clip, rate, startPosition) ==
    LET metadata == clip.metadata
        dur == ClipDuration(clip)
    IN  IF ~Has(metadata, "fcp7xml_generator")
           \/ dur = None
        THEN [isGenerator |-> FALSE, item |-> None]
        ELSE
        LET duration == Trunc(Get(dur).value)
            inPoint  == IF clip.source_range # None
                        THEN Trunc(Get(clip.source_range).start_time.value) ELSE 0
        IN  [isGenerator |-> TRUE,
             item |-> Some(
               [name     |-> clip.name,
                duration |-> duration,
                rate     |-> rate,
                start    |-> startPosition,
                end      |-> startPosition + duration,
                in       |-> inPoint,
                out      |-> inPoint + duration,
                enabled  |-> Some(clip.enabled),
                effect   |-> IF Has(metadata, "fcp7xml_effect")
                             THEN Some(metadataToEffect(metadata.fcp7xml_effect)) ELSE None,
                filter   |-> IF Has(metadata, "fcp7xml_filters")
                             THEN metadataToFilters(metadata.fcp7xml_filters) ELSE << >>,
                marker   |-> [i \in 1..Len(clip.markers) |->
                                 convertMarkerToFCP(clip.markers[i])]])]

\* convertToGenerator: [isGenerator, item]
convertToGenerator(clip, rate, startPosition) ==
    LET metadata == clip.metadata
        dur == ClipDuration(clip)
    IN  IF ~(Has(metadata, "fcp7xml_generator") /\ metadata.fcp7xml_generator)
           \/ dur = None
        THEN [isGenerator |-> FALSE, item |-> None]
        ELSE
        LET duration == Trunc(Get(dur).value)
            inPoint  == IF clip.source_range # None
                        THEN Trunc(Get(clip.source_range).start_time.value) ELSE 0
        IN  [isGenerator |-> TRUE,
             item |-> Some(
               [name     |-> clip.name,
                duration |-> duration,
                rate     |-> rate,
                start    |-> startPosition,
                end      |-> startPosition + duration,
                in       |-> inPoint,
                out      |-> inPoint + duration,
                enabled  |-> Some(clip.enabled),
                effect   |-> IF Has(metadata, "fcp7xml_effect")
                             THEN Some(metadataToEffect(metadata.fcp7xml_effect)) ELSE None,
                filter   |-> IF Has(metadata, "fcp7xml_filters")
                             THEN metadataToFilters(metadata.fcp7xml_filters) ELSE << >>,
                marker   |-> [i \in 1..Len(clip.markers) |->
                                 convertMarkerToFCP(clip.markers[i])]])]

\* The length of a transition taken from its in-offset alone
TransitionFrames_inOnly(trans) == Trunc(trans.in_offset.value)

\* Transition.InOffset().Add(Transition.OutOffset()), in frames
TransitionFrames(trans) ==
    Trunc(ValueAdd(trans.in_offset.value, trans.out_offset.value))

\* convertTransitionToItem
convertTransitionToItem(trans, rate, startPosition) ==
    LET metadata == trans.metadata
    IN  [name      |-> trans.name,
         rate      |-> rate,
         start     |-> startPosition,
         end       |-> startPosition + TransitionFrames(trans),
         alignment |-> IF Has(metadata, "fcp7xml_alignment")
                       THEN metadata.fcp7xml_alignment ELSE "center",
         effect    |-> IF Has(metadata, "fcp7xml_effect")
                       THEN Some(metadataToEffect(metadata.fcp7xml_effect)) ELSE None]

\* The Gap case of Encoder.convertTrack leaving the cursor where it is
AdvanceOverGap_stay(currentPosition, item) == currentPosition

\* The Gap case of Encoder.convertTrack: the cursor after the gap
AdvanceOverGap(currentPosition, item) ==
    currentPosition + Trunc(item.duration.value)

\* Encoder.convertTrack: the loop over track.Children() with its position
\* cursor; [ok, track], ok FALSE when a clip cannot be converted
RECURSIVE EncoderTrackLoop(_, _, _, _, _)
EncoderTrackLoop(children, i, rate, currentPosition, fcpTrack) ==
    IF i > Len(children) THEN [ok |-> TRUE, track |-> Some(fcpTrack)]
    ELSE
    LET item == children[i]
    IN  CASE item.type = "Clip" ->
             LET gen  == convertToGenerator(item, rate, currentPosition)
                 clip == convertClip(item, rate, currentPosition)
                 dur  == ClipDuration(item)
             IN  IF gen.isGenerator
                 THEN EncoderTrackLoop(children, i + 1, rate,
                          currentPosition + Trunc(Get(dur).value),
                          [fcpTrack EXCEPT !.generatoritem = Append(@, Get(gen.item))])
                 ELSE IF ~clip.ok \/ dur = None
                 THEN [ok |-> FALSE, track |-> None]
                 ELSE EncoderTrackLoop(children, i + 1, rate,
                          currentPosition + Trunc(Get(dur).value),
                          [fcpTrack EXCEPT !.clipitem = Append(@, Get(clip.item))])
          [] item.type = "Transition" ->
             EncoderTrackLoop(children, i + 1, rate,
                 currentPosition + TransitionFrames(item),
                 [fcpTrack EXCEPT !.transitionitem =
                     Append(@, convertTransitionToItem(item, rate, currentPosition))])
          [] item.type = "Gap" ->
             EncoderTrackLoop(children, i + 1, rate,
                 AdvanceOverGap(currentPosition, item), fcpTrack)
          [] OTHER ->
             EncoderTrackLoop(children, i + 1, rate, currentPosition, fcpTrack)

\* Encoder.convertTrack
EncoderConvertTrack(track, rate) ==
    EncoderTrackLoop(track.children, 1, rate, 0,
        [enabled |-> Some(track.enabled), clipitem |-> << >>,
         transitionitem |-> << >>, generatoritem |-> << >>])

\* Encoder.convertTracks with a video and an audio element whatever the
\* number of tracks
convertTracks_alwaysMedia(t, frameRate, isNTSC) ==
    LET timebase == IF isNTSC
                    THEN (2002 * frameRate.n + 1000 * frameRate.d) \div (2000 * frameRate.d)
                    ELSE frameRate.n \div frameRate.d
        rate   == [timebase |-> timebase, ntsc |-> isNTSC]
        video  == TracksOfKind(t, "Video")
        audio  == TracksOfKind(t, "Audio")
        vconv  == [i \in 1..Len(video) |-> EncoderConvertTrack(video[i], rate)]
        aconv  == [i \in 1..Len(audio) |-> EncoderConvertTrack(audio[i], rate)]
    IN  IF (\E i \in 1..Len(video) : ~vconv[i].ok) \/ (\E i \in 1..Len(audio) : ~aconv[i].ok)
        THEN [ok |-> FALSE, sequence |-> None]
        ELSE [ok |-> TRUE,
              sequence |-> Some(
                [name  |-> t.name,
                 rate  |-> rate,
                 media |-> [video |-> Some([i \in 1..Len(video) |-> Get(vconv[i].track)]),
                            audio |-> Some([i \in 1..Len(audio) |-> Get(aconv[i].track)])]])]

\* Encoder.convertTracks: [ok, sequence].  The sequence's duration field,
\* which Timeline.Duration() supplies, is not part of the model.
convertTracks(t, frameRate, isNTSC) ==
    LET timebase == IF isNTSC
                    THEN (2002 * frameRate.n + 1000 * frameRate.d) \div (2000 * frameRate.d)
                    ELSE frameRate.n \div frameRate.d
        rate   == [timebase |-> timebase, ntsc |-> isNTSC]
        video  == TracksOfKind(t, "Video")
        audio  == TracksOfKind(t, "Audio")
        vconv  == [i \in 1..Len(video) |-> EncoderConvertTrack(video[i], rate)]
        aconv  == [i \in 1..Len(audio) |-> EncoderConvertTrack(audio[i], rate)]
    IN  IF (\E i \in 1..Len(video) : ~vconv[i].ok) \/ (\E i \in 1..Len(audio) : ~aconv[i].ok)
        THEN [ok |-> FALSE, sequence |-> None]
        ELSE [ok |-> TRUE,
              sequence |-> Some(
                [name  |-> t.name,
                 rate  |-> rate,
                 media |-> [video |-> IF Len(video) > 0
                                      THEN Some([i \in 1..Len(video) |-> Get(vconv[i].track)])
                                      ELSE None,
                            audio |-> IF Len(audio) > 0
                                      THEN Some([i \in 1..Len(audio) |-> Get(aconv[i].track)])
                                      ELSE None]])]

\* The loop of convertTimeline that picks the frame rate: the first track
\* whose first child is a clip with a duration of positive rate; None when
\* the loop ends without a break.
RECURSIVE FirstClipRate(_, _)
FirstClipRate(tracks, i) ==
    IF i > Len(tracks) THEN None
    ELSE LET track == tracks[i]
         IN  IF /\ Len(track.children) > 0
                /\ track.children[1].type = "Clip"
                /\ ClipDuration(track.children[1]) # None
                /\ Get(ClipDuration(track.children[1])).rate.n > 0
             THEN Some(Get(ClipDuration(track.children[1])).rate)
             ELSE FirstClipRate(tracks, i + 1)

\* Encoder.convertTimeline: [ok, xmeml]
convertTimeline(t) ==
    LET found     == FirstClipRate(t.tracks, 1)
        frameRate == IF found = None THEN FPS(24, 1) ELSE Get(found)
        isNTSC    == IF found = None THEN FALSE ELSE isNTSCRate(frameRate)
        conv      == convertTracks(t, frameRate, isNTSC)
    IN  IF ~conv.ok THEN [ok |-> FALSE, xmeml |-> None]
        ELSE [ok |-> TRUE,
              xmeml |-> Some([version |-> "5", sequence |-> <<Get(conv.sequence)>>])]

\* What the Encoder writes is a sequence of chunks: text, or one element.
Text(s) == [text |-> s]

XMLHeader == Text("<?xml version=\"1.0\" encoding=\"UTF-8\"?>\n")

Doctype == Text("<!DOCTYPE xmeml>\n")

Newline == Text("\n")

\* xml.Encoder.Encode of an XMEML value: the xmeml root element
Marshal(xmeml) ==
    [element |-> "xmeml", version |-> xmeml.version, sequence |-> xmeml.sequence,
     fieldsParse |-> TRUE]

ErrNilTimeline == "timeline cannot be nil"

ErrConvertTimeline == "failed to convert timeline"

\* Encoder.Encode writing the XML header before it looks at its argument
Encode_headerFirst(tl) ==
    IF tl = None THEN [err |-> ErrNilTimeline, written |-> <<XMLHeader>>]
    ELSE LET conv == convertTimeline(Get(tl))
         IN  IF ~conv.ok THEN [err |-> ErrConvertTimeline, written |-> <<XMLHeader>>]
             ELSE [err |-> "",
                   written |-> <<XMLHeader, Doctype, Marshal(Get(conv.xmeml)), Newline>>]

\* Encoder.Encode writing the DOCTYPE line before the XML header
Encode_doctypeFirst(tl) ==
    IF tl = None THEN [err |-> ErrNilTimeline, written |-> << >>]
    ELSE LET conv == convertTimeline(Get(tl))
         IN  IF ~conv.ok THEN [err |-> ErrConvertTimeline, written |-> << >>]
             ELSE [err |-> "",
                   written |-> <<Doctype, XMLHeader, Marshal(Get(conv.xmeml)), Newline>>]

\* Encoder.Encode: [err, written], written being the writes to e.w in order
Encode(tl) ==
    IF tl = None THEN [err |-> ErrNilTimeline, written |-> << >>]
    ELSE LET conv == convertTimeline(Get(tl))
         IN  IF ~conv.ok THEN [err |-> ErrConvertTimeline, written |-> << >>]
             ELSE [err |-> "",
                   written |-> <<XMLHeader, Doctype, Marshal(Get(conv.xmeml)), Newline>>]

\* ---------------------------------------------------------------- Decoder

\* rateToFrameRate
rateToFrameRate(rate) ==
    IF rate.ntsc THEN FPS(rate.timebase * 1000, 1001) ELSE FPS(rate.timebase, 1)

\* parameterToMetadata
parameterToMetadata(p) ==
    (IF p.parameterid # "" THEN "parameterid" :> p.parameterid ELSE EmptyDict) @@
    (IF p.name # "" THEN "name" :> p.name ELSE EmptyDict) @@
    (IF p.value # "" THEN "value" :> p.value ELSE EmptyDict) @@
    (IF p.valueid # "" THEN "valueid" :> p.valueid ELSE EmptyDict) @@
    (IF p.valuemin # None THEN "valuemin" :> Get(p.valuemin) ELSE EmptyDict) @@
    (IF p.valuemax # None THEN "valuemax" :> Get(p.valuemax) ELSE EmptyDict) @@
    (IF p.valuelist # "" THEN "valuelist" :> p.valuelist ELSE EmptyDict)

\* effectToMetadata
effectToMetadata(effect) ==
    ("name" :> effect.name) @@
    ("effectid" :> effect.effectid) @@
    ("effecttype" :> effect.effecttype) @@
    ("mediatype" :> effect.mediatype) @@
    (IF effect.effectcategory # "" THEN "effectcategory" :> effect.effectcategory
     ELSE EmptyDict) @@
    (IF effect.duration > 0 THEN "duration" :> effect.duration ELSE EmptyDict) @@
    (IF effect.startratio # None THEN "startratio" :> Get(effect.startratio)
     ELSE EmptyDict) @@
    (IF effect.endratio # None THEN "endratio" :> Get(effect.endratio) ELSE EmptyDict) @@
    (IF effect.reverse # None THEN "reverse" :> Get(effect.reverse) ELSE EmptyDict) @@
    (IF Len(effect.parameter) > 0
     THEN "parameters" :> [i \in 1..Len(effect.parameter) |->
                              parameterToMetadata(effect.parameter[i])]
     ELSE EmptyDict)

\* effectsToMetadata
effectsToMetadata(effects) ==
    [i \in 1..Len(effects) |-> effectToMetadata(effects[i])]

\* filtersToMetadata
filtersToMetadata(filters) ==
    [i \in 1..Len(filters) |->
        LET f == filters[i]
        IN  (IF f.enabled # None THEN "enabled" :> Get(f.enabled) ELSE EmptyDict) @@
            (IF f.start > 0 THEN "start" :> f.start ELSE EmptyDict) @@
            (IF f.end > 0 THEN "end" :> f.end ELSE EmptyDict) @@
            (IF f.effect # None THEN "effect" :> effectToMetadata(Get(f.effect))
             ELSE EmptyDict)]

\* Decoder.convertMarker
convertMarker(m, frameRate) ==
    [name         |-> m.name,
     marked_range |-> NewTimeRange(NewRationalTime(Whole(m.in), frameRate),
                                   NewRationalTime(Whole(m.out - m.in), frameRate)),
     color        |-> "GREEN",
     comment      |-> m.comment,
     metadata     |-> (IF m.comment # "" THEN "comment" :> m.comment ELSE EmptyDict) @@
                      (IF m.color # None
                       THEN "fcp7xml_color" :>
                                [red   |-> Get(m.color).red,
                                 green |-> Get(m.color).green,
                                 blue  |-> Get(m.color).blue,
                                 alpha |-> Get(m.color).alpha]
                       ELSE EmptyDict)]

\* The two scans of createMediaReference over the file name
HasHashPattern(name) ==
    \E i \in 1..(Len(name) - 3) :
        /\ name[i] = "#" /\ name[i + 1] = "#" /\ name[i + 2] = "#" /\ name[i + 3] = "#"

HasPrintfPattern(name) ==
    /\ Len(name) > 4
    /\ \E i \in 1..(Len(name) - 4) :
        /\ name[i] = "%"
        /\ name[i + 1] \in {"0", "1", "2", "3", "4", "5", "6", "7", "8", "9"}
        /\ (name[i + 3] = "d" \/ name[i + 4] = "d")

\* Decoder.createMediaReference
createMediaReference(file, frameRate) ==
    LET availableRange == NewTimeRange(NewRationalTime(Whole(0), frameRate),
                                       NewRationalTime(Whole(file.duration), frameRate))
        isImageSequence == HasHashPattern(file.name) \/ HasPrintfPattern(file.name)
    IN  IF isImageSequence
        THEN [kind            |-> "ImageSequenceReference",
              name            |-> file.name,
              target_url      |-> file.pathurl,
              available_range |-> Some(availableRange),
              metadata        |-> "fcp7xml_file_id" :> file.id]
        ELSE [kind            |-> "ExternalReference",
              name            |-> file.name,
              target_url      |-> file.pathurl,
              available_range |-> Some(availableRange),
              metadata        |-> EmptyDict]

\* opentimelineio.NewMissingReference("", nil, nil)
NewMissingReference ==
    [kind |-> "MissingReference", name |-> << >>, target_url |-> EmptyURL,
     available_range |-> None, metadata |-> EmptyDict]

\* "Calculate the frame rate" of convertClipItem without the NTSC adjustment
ClipItemFrameRate_noNTSC(item) == FPS(item.rate.timebase, 1)

\* "Calculate the frame rate" of convertClipItem adjusting every timebase
ClipItemFrameRate_always1001(item) == FPS(item.rate.timebase * 1000, 1001)

\* "Calculate the frame rate" at the head of Decoder.convertClipItem
ClipItemFrameRate(item) ==
    IF item.rate.ntsc THEN FPS(item.rate.timebase * 1000, 1001)
    ELSE FPS(item.rate.timebase, 1)

\* Decoder.convertClipItem (its error is always nil)
convertClipItem(item, sequenceRate) ==
    LET frameRate   == ClipItemFrameRate(item)
        sourceRange == NewTimeRange(NewRationalTime(Whole(item.in), frameRate),
                                    NewRationalTime(Whole(item.out - item.in), frameRate))
    IN  IF item.sequence # None
        THEN [type            |-> "Clip",
              name            |-> item.name,
              media_reference |-> Some(NewMissingReference),
              source_range    |-> Some(sourceRange),
              metadata        |-> ("fcp7xml_nested_sequence" :> TRUE) @@
                                  ("fcp7xml_sequence_name" :> Get(item.sequence).name),
              markers         |-> << >>,
              enabled         |-> TRUE]
        ELSE [type            |-> "Clip",
              name            |-> item.name,
              media_reference |-> IF item.file # None /\ Get(item.file).pathurl # EmptyURL
                                  THEN Some(createMediaReference(Get(item.file), frameRate))
                                  ELSE Some(NewMissingReference),
              source_range    |-> Some(sourceRange),
              metadata        |-> (IF item.id # "" THEN "fcp7xml_id" :> item.id
                                   ELSE EmptyDict) @@
                                  (IF Len(item.effect) > 0
                                   THEN "fcp7xml_effects" :> effectsToMetadata(item.effect)
                                   ELSE EmptyDict) @@
                                  (IF Len(item.filter) > 0
                                   THEN "fcp7xml_filters" :> filtersToMetadata(item.filter)
                                   ELSE EmptyDict),
              markers         |-> [i \in 1..Len(item.marker) |->
                                      convertMarker(item.marker[i], frameRate)],
              enabled         |-> ~(item.enabled # None /\ ~Get(item.enabled))]

\* Decoder.convertTransition halving the length in whole frames
convertTransition_wholeHalf(item, sequenceRate) ==
    LET frameRate    == rateToFrameRate(item.rate)
        halfDuration == NewRationalTime(Whole((item.end - item.start) \div 2), frameRate)
    IN  [type       |-> "Transition",
         name       |-> item.name,
         in_offset  |-> halfDuration,
         out_offset |-> halfDuration,
         metadata   |-> ("fcp7xml_alignment" :> item.alignment) @@
                        (IF item.effect # None
                         THEN "fcp7xml_effect" :> effectToMetadata(Get(item.effect))
                         ELSE EmptyDict)]

\* Decoder.convertTransition (its error is always nil)
convertTransition(item, sequenceRate) ==
    LET frameRate    == rateToFrameRate(item.rate)
        halfDuration == NewRationalTime([num |-> item.end - item.start, den |-> 2],
                                        frameRate)
    IN  [type       |-> "Transition",
         name       |-> item.name,
         in_offset  |-> halfDuration,
         out_offset |-> halfDuration,
         metadata   |-> ("fcp7xml_alignment" :> item.alignment) @@
                        (IF item.effect # None
                         THEN "fcp7xml_effect" :> effectToMetadata(Get(item.effect))
                         ELSE EmptyDict)]

\* Decoder.convertGenerator (its error is always nil)
convertGenerator(item, sequenceRate) ==
    LET frameRate   == rateToFrameRate(item.rate)
        sourceRange == NewTimeRange(NewRationalTime(Whole(item.in), frameRate),
                                    NewRationalTime(Whole(item.duration), frameRate))
    IN  [type            |-> "Clip",
         name            |-> item.name,
         media_reference |-> Some([kind            |-> "GeneratorReference",
                                   name            |-> item.name,
                                   target_url      |-> EmptyURL,
                                   available_range |-> None,
                                   metadata        |-> EmptyDict]),
         source_range    |-> Some(sourceRange),
         metadata        |-> ("fcp7xml_generator" :> TRUE) @@
                             ("fcp7xml_generator_name" :> item.name) @@
                             (IF item.effect # None
                              THEN "fcp7xml_effect" :> effectToMetadata(Get(item.effect))
                              ELSE EmptyDict) @@
                             (IF Len(item.filter) > 0
                              THEN "fcp7xml_filters" :> filtersToMetadata(item.filter)
                              ELSE EmptyDict),
         markers         |-> [i \in 1..Len(item.marker) |->
                                 convertMarker(item.marker[i], frameRate)],
         enabled         |-> ~(item.enabled # None /\ ~Get(item.enabled))]

\* The trackItem values convertTrack collects: clip items, then transition
\* items, then generator items, each list in file order.
CollectItems(fcpTrack) ==
    [i \in 1..Len(fcpTrack.clipitem) |->
        [start |-> fcpTrack.clipitem[i].start, itemType |-> "clip",
         item |-> fcpTrack.clipitem[i]]] \o
    [i \in 1..Len(fcpTrack.transitionitem) |->
        [start |-> fcpTrack.transitionitem[i].start, itemType |-> "transition",
         item |-> fcpTrack.transitionitem[i]]] \o
    [i \in 1..Len(fcpTrack.generatoritem) |->
        [start |-> fcpTrack.generatoritem[i].start, itemType |-> "generator",
         item |-> fcpTrack.generatoritem[i]]]

Swap(items, i, j) == [items EXCEPT ![i] = items[j], ![j] = items[i]]

\* The inner loop of the sort with the comparison the other way round
RECURSIVE SortInner_descending(_, _, _)
SortInner_descending(items, i, j) ==
    IF j > Len(items) THEN items
    ELSE SortInner_descending(
             IF items[j].start > items[i].start THEN Swap(items, i, j) ELSE items,
             i, j + 1)

\* The inner loop of the sort: for j := i+1; j < len(items); j++
RECURSIVE SortInner(_, _, _)
SortInner(items, i, j) ==
    IF j > Len(items) THEN items
    ELSE SortInner(IF items[j].start < items[i].start THEN Swap(items, i, j) ELSE items,
                   i, j + 1)

\* The outer loop of the sort: for i := 0; i < len(items)-1; i++
RECURSIVE SortOuter(_, _)
SortOuter(items, i) ==
    IF i > Len(items) - 1 THEN items
    ELSE SortOuter(SortInner(items, i, i + 1), i + 1)

\* "Sort by start time" in Decoder.convertTrack
SortByStart(items) == SortOuter(items, 1)

\* The switch on item.itemType in Decoder.convertTrack
ConvertItem(it, rate) ==
    CASE it.itemType = "clip" -> convertClipItem(it.item, rate)
      [] it.itemType = "transition" -> convertTransition(it.item, rate)
      [] it.itemType = "generator" -> convertGenerator(it.item, rate)

\* The loop "Convert items in order" of Decoder.convertTrack: [ok, children].
\* refused is the set of item names whose child Track.AppendChild refuses.
RECURSIVE DecoderTrackLoop(_, _, _, _, _)
DecoderTrackLoop(items, i, rate, refused, children) ==
    IF i > Len(items) THEN [ok |-> TRUE, children |-> children]
    ELSE LET child == ConvertItem(items[i], rate)
         IN  IF child.name \in refused
             THEN [ok |-> FALSE, children |-> << >>]
             ELSE DecoderTrackLoop(items, i + 1, rate, refused, Append(children, child))

\* Decoder.convertTrack: [ok, track]
DecoderConvertTrack(fcpTrack, rate, kind, index, refused) ==
    LET items == SortByStart(CollectItems(fcpTrack))
        conv  == DecoderTrackLoop(items, 1, rate, refused, << >>)
    IN  IF ~conv.ok THEN [ok |-> FALSE, track |-> None]
        ELSE [ok |-> TRUE,
              track |-> Some([name     |-> <<kind, index + 1>>,
                              kind     |-> kind,
                              enabled  |-> ~(fcpTrack.enabled # None /\ ~Get(fcpTrack.enabled)),
                              children |-> conv.children])]

\* Decoder.convertSequence: [ok, timeline]
convertSequence(seq, refused) ==
    LET video == IF seq.media.video # None THEN Get(seq.media.video) ELSE << >>
        audio == IF seq.media.audio # None THEN Get(seq.media.audio) ELSE << >>
        vconv == [i \in 1..Len(video) |->
                     DecoderConvertTrack(video[i], seq.rate, "Video", i - 1, refused)]
        aconv == [i \in 1..Len(audio) |->
                     DecoderConvertTrack(audio[i], seq.rate, "Audio", i - 1, refused)]
    IN  IF (\E i \in 1..Len(video) : ~vconv[i].ok) \/ (\E i \in 1..Len(audio) : ~aconv[i].ok)
        THEN [ok |-> FALSE, timeline |-> None]
        ELSE [ok |-> TRUE,
              timeline |-> Some([name   |-> seq.name,
                                 tracks |-> [i \in 1..Len(video) |-> Get(vconv[i].track)] \o
                                            [i \in 1..Len(audio) |-> Get(aconv[i].track)]])]

\* xml.Decoder.Decode(&xmeml) taking any root element for the xmeml element
Unmarshal_anyRoot(s) ==
    LET rest == SelectSeq(s, LAMBDA c : "text" \notin DOMAIN c)
    IN  IF rest = << >> THEN None
        ELSE IF "element" \notin DOMAIN rest[1] THEN None
        ELSE IF ~rest[1].fieldsParse THEN None
        ELSE Some([version |-> rest[1].version, sequence |-> rest[1].sequence])

\* xml.Decoder.Decode(&xmeml): text before the root is skipped; the first
\* thing that is not text must be an xmeml root element whose fields parse
\* into the struct.  None is an error.
Unmarshal(s) ==
    LET rest == SelectSeq(s, LAMBDA c : "text" \notin DOMAIN c)
    IN  IF rest = << >> THEN None
        ELSE IF "element" \notin DOMAIN rest[1] THEN None
        ELSE IF rest[1].element # "xmeml" \/ ~rest[1].fieldsParse THEN None
        ELSE Some([version |-> rest[1].version, sequence |-> rest[1].sequence])

ErrDecodeXML == "failed to decode XML"

ErrNoSequence == "no sequence found in FCP7 XML"

ErrConvertTrack == "failed to convert track"

\* Decoder.Decode: [err, timeline]
Decode(s, refused) ==
    LET xmeml == Unmarshal(s)
    IN  IF xmeml = None THEN [err |-> ErrDecodeXML, timeline |-> None]
        ELSE IF Len(Get(xmeml).sequence) = 0
        THEN [err |-> ErrNoSequence, timeline |-> None]
        ELSE LET conv == convertSequence(Get(xmeml).sequence[1], refused)
             IN  IF ~conv.ok THEN [err |-> ErrConvertTrack, timeline |-> None]
                 ELSE [err |-> "", timeline |-> conv.timeline]

\* ---------------------------------------------------------------- actions

\* NewEncoder(&buf).Encode(timeline)
EncodeCall ==
    /\ todo # << >> /\ Head(todo) = "Encode"
    /\ \E r \in {Encode(timeline)} :
           /\ stream' = stream \o r.written
           /\ err' = r.err
           /\ hist' = Append(hist, [op |-> "Encode", timeline |-> timeline,
                                    stream |-> r.written, err |-> r.err])
           /\ todo' = IF r.err = "" THEN Tail(todo) ELSE << >>
    /\ UNCHANGED <<timeline, rejects, calls, outputs>>

\* timeline, err := NewDecoder(&buf).Decode()
DecodeCall ==
    /\ todo # << >> /\ Head(todo) = "Decode"
    /\ \E r \in {Decode(stream, rejects)} :
           /\ timeline' = r.timeline
           /\ err' = r.err
           /\ hist' = Append(hist, [op |-> "Decode", timeline |-> r.timeline,
                                    stream |-> stream, err |-> r.err])
           /\ todo' = IF r.err = "" THEN Tail(todo) ELSE << >>
    /\ stream' = << >>
    /\ UNCHANGED <<rejects, calls, outputs>>

Next == EncodeCall \/ DecodeCall

\* ------------------------------------------------- inputs: round trip

R24 == FPS(24, 1)

R2997 == FPS(30000, 1001)

MaxTracks == 2

MaxClips == 2

Frames(start, dur, rate) ==
    NewTimeRange(NewRationalTime(Whole(start), rate), NewRationalTime(Whole(dur), rate))

NewExternalReference(name, url, availableRange) ==
    [kind |-> "ExternalReference", name |-> name, target_url |-> url,
     available_range |-> availableRange, metadata |-> EmptyDict]

NewMarker(name, comment, range) ==
    [name |-> name, marked_range |-> range, color |-> "GREEN", comment |-> comment,
     metadata |-> EmptyDict]

NewClip(name, ref, sourceRange, markers) ==
    [type |-> "Clip", name |-> name, media_reference |-> Some(ref),
     source_range |-> sourceRange, metadata |-> EmptyDict, markers |-> markers,
     enabled |-> TRUE]

VideoMov ==
    NewExternalReference(<<"v", ".", "m", "o", "v">>,
                         [scheme |-> "file", path |-> <<"/", "video.mov">>],
                         Some(Frames(0, 200, R24)))

\* The clip of TestEncoder_EncodeRoundTrip and the clips that differ from it
\* in one respect: name, duration, rate, reference, source range, markers.
RoundTripClips ==
    {NewClip("Video Clip", VideoMov, Some(Frames(0, 100, R24)), << >>),
     NewClip("Audio Clip", VideoMov, Some(Frames(0, 100, R24)), << >>),
     NewClip("Video Clip", VideoMov, Some(Frames(10, 50, R24)), << >>),
     NewClip("Video Clip", VideoMov, Some(Frames(0, 100, R2997)), << >>),
     NewClip("Video Clip", NewMissingReference, Some(Frames(0, 100, R24)), << >>),
     NewClip("Video Clip", VideoMov, None, << >>),
     NewClip("Video Clip", VideoMov, Some(Frames(0, 100, R24)),
             <<NewMarker("M1", "note", Frames(5, 10, R24))>>),
     NewClip("Video Clip", VideoMov, Some(Frames(0, 100, R24)),
             <<NewMarker("M1", "", Frames(5, 10, R2997))>>)}

\* The timelines with the tracks of the kinds in kinds and the children
\* placed: placed[i] = <<child, index of its track>>, appended in order.
BuildTimeline(name, kinds, placed) ==
    [name   |-> name,
     tracks |-> [j \in 1..Len(kinds) |->
                    [name     |-> <<kinds[j], j>>,
                     kind     |-> kinds[j],
                     enabled  |-> TRUE,
                     children |->
                         LET mine == SelectSeq(placed, LAMBDA p : p[2] = j)
                         IN  [i \in 1..Len(mine) |-> mine[i][1]]]]]

TimelinesOver(names, children, maxTracks, maxChildren) ==
    {BuildTimeline(n, kinds, placed) :
        n \in names,
        kinds \in SeqUpTo({"Video", "Audio"}, maxTracks),
        placed \in SeqUpTo(children \X (1..maxTracks), maxChildren)}

RoundTripTimelines ==
    TimelinesOver({"Round Trip Test"}, RoundTripClips, MaxTracks, MaxClips)

Init ==
    /\ timeline \in {None} \cup {Some(t) : t \in RoundTripTimelines}
    /\ stream = << >>
    /\ err = ""
    /\ todo = <<"Encode", "Decode">>
    /\ hist = << >>
    /\ rejects = {}
    /\ NoCalls

Spec == Init /\ [][Next]_vars

\* ------------------------------------------------ round trip (C1, C8)

\* The calls i such that call i is an Encode that succeeded and call i+1
\* the Decode of what it wrote.
EncodeDecodePairs ==
    {i \in 1..(Len(hist) - 1) :
        hist[i].op = "Encode" /\ hist[i].err = "" /\ hist[i + 1].op = "Decode"}

\* The eight canonical rates as frame rates
CanonicalRates ==
    {FPS(24, 1), FPS(25, 1), FPS(30, 1), FPS(50, 1), FPS(60, 1),
     FPS(24000, 1001), FPS(30000, 1001), FPS(60000, 1001)}

SameMarker(m, n) ==
    m.name = n.name /\ m.comment = n.comment /\ m.marked_range = n.marked_range

\* d has the clip c: name, duration and markers
SameClip(c, d) ==
    /\ d.type = "Clip"
    /\ d.name = c.name
    /\ ClipDuration(d) = ClipDuration(c)
    /\ Len(d.markers) = Len(c.markers)
    /\ \A k \in 1..Len(c.markers) : SameMarker(c.markers[k], d.markers[k])

SameTracks(ts, ds) ==
    /\ Len(ds) = Len(ts)
    /\ \A j \in 1..Len(ts) :
        /\ Len(ds[j].children) = Len(ts[j].children)
        /\ \A k \in 1..Len(ts[j].children) :
               SameClip(ts[j].children[k], ds[j].children[k])

\* What C1 says of a timeline t and d = decode(encode(t))
RoundTripSame(t, d) ==
    /\ d.name = t.name
    /\ SameTracks(TracksOfKind(t, "Video"), TracksOfKind(d, "Video"))
    /\ SameTracks(TracksOfKind(t, "Audio"), TracksOfKind(d, "Audio"))

\* The rates of every time value the encoder reads from the clips of t
RatesOf(t) ==
    UNION {UNION {
        LET c == t.tracks[j].children[k]
        IN  (IF c.source_range # None
             THEN {Get(c.source_range).start_time.rate, Get(c.source_range).duration.rate}
             ELSE {Get(ClipAvailableRange(c)).start_time.rate,
                   Get(ClipAvailableRange(c)).duration.rate})
            \cup UNION {{c.markers[m].marked_range.start_time.rate,
                         c.markers[m].marked_range.duration.rate} :
                            m \in 1..Len(c.markers)}
        : k \in 1..Len(t.tracks[j].children)} : j \in 1..Len(t.tracks)}

OneCanonicalRate(t) == \E r \in CanonicalRates : RatesOf(t) \subseteq {r}

C8_NilTimeline ==
    (hist # << >> /\ Last(hist).op = "Encode" /\ Last(hist).timeline = None) =>
        /\ err = ErrNilTimeline
        /\ Last(hist).stream = << >>
        /\ stream = << >>

\* Encode(nil) has been called
C8_Witness ==
    hist # << >> /\ Last(hist).op = "Encode" /\ Last(hist).timeline = None

\* --------------------------------------------------- inputs: gaps

MaxChildren == 3

NewGapWithDuration(d) == [type |-> "Gap", duration |-> d]

NewTransition(name, inOffset, outOffset, metadata) ==
    [type |-> "Transition", name |-> name, in_offset |-> inOffset,
     out_offset |-> outOffset, metadata |-> metadata]

\* The children of TestEncoder_EncodeWithGaps (two clips and a gap of 25),
\* a transition and a clip marked as a generator.
GapChildren ==
    {NewClip("Clip 1", NewMissingReference, Some(Frames(0, 50, R24)), << >>),
     NewClip("Clip 2", NewMissingReference, Some(Frames(5, 30, R24)), << >>),
     NewGapWithDuration(NewRationalTime(Whole(25), R24)),
     NewTransition("Dissolve", NewRationalTime(Whole(5), R24),
                   NewRationalTime(Whole(5), R24), EmptyDict),
     [NewClip("Slug", NewMissingReference, Some(Frames(0, 20, R24)), << >>)
         EXCEPT !.metadata = "fcp7xml_generator" :> TRUE]}

GapTimelines ==
    {BuildTimeline("Timeline with Gaps", <<"Video">>, [i \in 1..Len(cs) |-> <<cs[i], 1>>]) :
        cs \in SeqUpTo(GapChildren, MaxChildren)}

InitGap ==
    /\ timeline \in {Some(t) : t \in GapTimelines}
    /\ stream = << >>
    /\ err = ""
    /\ todo = <<"Encode", "Decode", "Encode">>
    /\ hist = << >>
    /\ rejects = {}
    /\ NoCalls

SpecGap == InitGap /\ [][Next]_vars

\* ----------------------------------------------------- gaps (C4, C5)

\* The length in frames of a child of a track, read off the child
ChildFrames(c) ==
    CASE c.type = "Clip" -> Trunc(Get(ClipDuration(c)).value)
      [] c.type = "Gap" -> Trunc(c.duration.value)
      [] c.type = "Transition" ->
             Trunc(ValueAdd(c.in_offset.value, c.out_offset.value))

RECURSIVE SumFrames(_, _)
\* The sum of the lengths of the first n children
SumFrames(children, n) ==
    IF n = 0 THEN 0 ELSE SumFrames(children, n - 1) + ChildFrames(children[n])

\* The list of the schema track a child is emitted to
ListOf(c) ==
    CASE c.type = "Transition" -> "transitionitem"
      [] c.type = "Clip" /\ Has(c.metadata, "fcp7xml_generator") -> "generatoritem"
      [] c.type = "Clip" -> "clipitem"
      [] OTHER -> "none"

\* How many of the first n children go to the list l
CountInList(children, n, l) ==
    Cardinality({k \in 1..n : ListOf(children[k]) = l})

\* The document an Encode call wrote
Written(h) == Get(Unmarshal(h.stream))

\* The schema tracks of a document, video tracks first
DocTracks(x) ==
    (IF x.sequence[1].media.video # None THEN Get(x.sequence[1].media.video) ELSE << >>) \o
    (IF x.sequence[1].media.audio # None THEN Get(x.sequence[1].media.audio) ELSE << >>)

ItemCount(fcpTrack) ==
    Len(fcpTrack.clipitem) + Len(fcpTrack.transitionitem) + Len(fcpTrack.generatoritem)

\* The track fcpTrack holds one item per non-gap child, each starting at
\* the sum of the lengths of all the children before it.
GapsElided(children, fcpTrack) ==
    /\ ItemCount(fcpTrack) = Cardinality({k \in 1..Len(children) : children[k].type # "Gap"})
    /\ \A k \in 1..Len(children) :
        children[k].type # "Gap" =>
            LET l == ListOf(children[k])
                m == CountInList(children, k, l)
            IN  /\ m <= Len(fcpTrack[l])
                /\ fcpTrack[l][m].name = children[k].name
                /\ fcpTrack[l][m].start = SumFrames(children, k - 1)

\* C4: Gap elision.  A Gap child emits no element and advances the cursor
\* by its duration: an encoded track has as many items as the track has
\* non-gap children, and every item starts at the sum of the durations of
\* all the children before it, gaps included.
C4_GapElision ==
    \A i \in 1..Len(hist) :
        (hist[i].op = "Encode" /\ hist[i].err = "") =>
            LET t == Get(hist[i].timeline)
                x == DocTracks(Written(hist[i]))
            IN  /\ Len(x) = Len(t.tracks)
                /\ \A j \in 1..Len(x) : GapsElided(t.tracks[j].children, x[j])

\* clip of 50, gap of 25, clip of 30: two clip items, the second at 75
C4_Witness ==
    /\ hist # << >> /\ hist[1].op = "Encode" /\ hist[1].err = ""
    /\ LET ch == Get(hist[1].timeline).tracks[1].children
           tr == DocTracks(Written(hist[1]))[1]
       IN  /\ Len(ch) = 3
           /\ ch[1].type = "Clip" /\ ch[2].type = "Gap" /\ ch[3].type = "Clip"
           /\ ch[1].name = "Clip 1"
           /\ Len(tr.clipitem) = 2
           /\ tr.clipitem[2].start = 75

\* The positions (sums of the lengths of the children before) of the clips
\* of a track, in order
Positions(children) ==
    LET idx == SelectSeq([k \in 1..Len(children) |-> k],
                         LAMBDA k : children[k].type = "Clip")
    IN  [m \in 1..Len(idx) |-> SumFrames(children, idx[m] - 1)]

\* start and end of every item of a document, track by track, list by list
StartsAndEnds(x) ==
    LET se(items) == [m \in 1..Len(items) |-> <<items[m].start, items[m].end>>]
        tr == DocTracks(x)
    IN  [j \in 1..Len(tr) |->
            <<se(tr[j].clipitem), se(tr[j].transitionitem), se(tr[j].generatoritem)>>]

\* C5: Gap reconstruction.  Every clip of decode(encode(t)) sits at the
\* same position as in t, and encode(decode(encode(t))) gives every item
\* the start and end encode(t) gave it.
C5_GapReconstruction ==
    /\ \A i \in EncodeDecodePairs :
        /\ hist[i + 1].err = ""
        /\ LET t == Get(hist[i].timeline)
               d == Get(hist[i + 1].timeline)
           IN  /\ Len(d.tracks) = Len(t.tracks)
               /\ \A j \in 1..Len(t.tracks) :
                      Positions(d.tracks[j].children) = Positions(t.tracks[j].children)
    /\ \A i \in 1..(Len(hist) - 2) :
        (hist[i].op = "Encode" /\ hist[i + 2].op = "Encode") =>
            /\ hist[i + 2].err = ""
            /\ StartsAndEnds(Written(hist[i + 2])) = StartsAndEnds(Written(hist[i]))

\* ------------------------------------------------ inputs: documents

MaxItems == 3

Starts == {0, 10, 20}

NTSC30 == [timebase |-> 30, ntsc |-> TRUE]

ItemNames ==
    [clip       |-> <<"c1", "c2", "c3", "c4", "c5">>,
     transition |-> <<"t1", "t2", "t3", "t4", "t5">>,
     generator  |-> <<"g1", "g2", "g3", "g4", "g5">>]

LevelParameter ==
    [parameterid |-> "level", name |-> "Level", value |-> "50", valueid |-> "",
     valuemin |-> Some(0), valuemax |-> Some(100), valuelist |-> ""]

DissolveEffect ==
    [name |-> "Cross Dissolve", effectid |-> "Cross Dissolve",
     effecttype |-> "transition", mediatype |-> "video",
     effectcategory |-> "Dissolve", duration |-> 0, startratio |-> Some(0),
     endratio |-> Some(1), reverse |-> Some(FALSE), parameter |-> << >>]

BlurEffect ==
    [name |-> "Gaussian Blur", effectid |-> "Gaussian Blur",
     effecttype |-> "filter", mediatype |-> "video", effectcategory |-> "",
     duration |-> 12, startratio |-> None, endratio |-> None, reverse |-> None,
     parameter |-> <<LevelParameter>>]

BlurFilter == [enabled |-> Some(TRUE), start |-> 0, end |-> 8, effect |-> Some(BlurEffect)]

BareFilter == [enabled |-> None, start |-> 0, end |-> 0, effect |-> None]

RedMarker ==
    [name |-> "Clip Marker 1", comment |-> "First marker", in |-> 2, out |-> 4,
     color |-> Some([red |-> 255, green |-> 0, blue |-> 0, alpha |-> 0])]

PlainMarker == [name |-> "Clip Marker 2", comment |-> "", in |-> 6, out |-> 6, color |-> None]

ClipFile ==
    [id |-> <<"f", "1">>, name |-> <<"a", ".", "m", "o", "v">>,
     pathurl |-> [scheme |-> "file", path |-> <<"/", "a.mov">>],
     rate |-> NTSC30, duration |-> 100]

\* One item of a list of a track: the i-th of its kind, at start; full
\* says whether it carries markers, effects and filters.
SchemaItem(kind, i, start, full) ==
    CASE kind = "clip" ->
             [id |-> IF full THEN "clipitem-1" ELSE "", name |-> ItemNames.clip[i],
              enabled |-> None, duration |-> 10, rate |-> NTSC30,
              start |-> start, end |-> start + 10, in |-> 3, out |-> 13,
              file |-> IF full THEN Some(ClipFile) ELSE None, sequence |-> None,
              filter |-> IF full THEN <<BlurFilter, BareFilter>> ELSE << >>,
              effect |-> IF full THEN <<BlurEffect>> ELSE << >>,
              marker |-> IF full THEN <<RedMarker, PlainMarker>> ELSE << >>]
      [] kind = "transition" ->
             [name |-> ItemNames.transition[i], rate |-> NTSC30,
              start |-> start, end |-> start + 5,
              alignment |-> IF full THEN "end-black" ELSE "center",
              effect |-> IF full THEN Some(DissolveEffect) ELSE None]
      [] kind = "generator" ->
             [name |-> ItemNames.generator[i], duration |-> 10, rate |-> NTSC30,
              start |-> start, end |-> start + 10, in |-> 0, out |-> 10,
              enabled |-> None,
              effect |-> IF full THEN Some(BlurEffect) ELSE None,
              filter |-> IF full THEN <<BlurFilter>> ELSE << >>,
              marker |-> IF full THEN <<RedMarker>> ELSE << >>]

\* The track whose lists hold the items picked: picked[n] = <<kind, start,
\* full>>, each list in the order of picked.
SchemaTrack(picked) ==
    LET list(kind) ==
            LET mine == SelectSeq(picked, LAMBDA q : q[1] = kind)
            IN  [i \in 1..Len(mine) |-> SchemaItem(kind, i, mine[i][2], mine[i][3])]
    IN  [enabled |-> None, clipitem |-> list("clip"),
         transitionitem |-> list("transition"), generatoritem |-> list("generator")]

SchemaTracks(fulls, maxItems) ==
    {SchemaTrack(picked) :
        picked \in SeqUpTo({"clip", "transition", "generator"} \X Starts \X fulls, maxItems)}

SequenceOf(name, video, audio) ==
    [name |-> name, rate |-> NTSC30,
     media |-> [video |-> IF video = << >> THEN None ELSE Some(video),
                audio |-> IF audio = << >> THEN None ELSE Some(audio)]]

\* The bytes of a file holding the document
FileOf(xmeml) == <<XMLHeader, Doctype, Marshal(xmeml), Newline>>

DecodeStreams ==
    {FileOf([version |-> "5", sequence |-> <<SequenceOf("Features", <<tr>>, << >>)>>]) :
        tr \in SchemaTracks(BOOLEAN, MaxItems)}

InitDecode ==
    /\ timeline = None
    /\ stream \in DecodeStreams
    /\ err = ""
    /\ todo = <<"Decode", "Encode", "Decode">>
    /\ hist = << >>
    /\ rejects = {}
    /\ NoCalls

SpecDecode == InitDecode /\ [][Next]_vars

\* ------------------------------------------- ordering (C2, C3)

\* The calls of Decode that returned a timeline
DecodeCalls == {i \in 1..Len(hist) : hist[i].op = "Decode" /\ hist[i].err = ""}

\* The items of a schema track as the file lists them: the clip items,
\* then the transition items, then the generator items.
FileOrder(fcpTrack) ==
    LET tag(l) == [m \in 1..Len(fcpTrack[l]) |->
                      [list |-> l, name |-> fcpTrack[l][m].name,
                       start |-> fcpTrack[l][m].start]]
    IN  tag("clipitem") \o tag("transitionitem") \o tag("generatoritem")

\* Where the child of the item it stands among the children, 0 if nowhere
ChildIndex(children, it) ==
    LET at == {m \in 1..Len(children) :
                  ListOf(children[m]) = it.list /\ children[m].name = it.name}
    IN  IF at = {} THEN 0 ELSE CHOOSE m \in at : TRUE

\* children holds one child per item of items, in non-decreasing order of
\* the items' start
OrderedByStart(children, items) ==
    /\ Len(children) = Len(items)
    /\ \A k \in 1..Len(items) :
        Cardinality({m \in 1..Len(children) :
                        ListOf(children[m]) = items[k].list
                        /\ children[m].name = items[k].name}) = 1
    /\ \A k, l \in 1..Len(items) :
        ChildIndex(children, items[k]) < ChildIndex(children, items[l])
            => items[k].start <= items[l].start

\* C2: Ordering reconstruction.  The children Decode gives a track are one
\* child per item of its clip, transition and generator lists, a
\* permutation of their concatenation, in non-decreasing order of the
\* items' start, whatever the order of the items in the file.
C2_OrderingReconstruction ==
    \A i \in DecodeCalls :
        LET x == DocTracks(Written(hist[i]))
            t == Get(hist[i].timeline)
        IN  /\ Len(t.tracks) = Len(x)
            /\ \A j \in 1..Len(x) :
                   OrderedByStart(t.tracks[j].children, FileOrder(x[j]))

\* a track whose lists interleave: the clip item starts after the
\* generator item and the transition item, and comes out last
C2_Witness ==
    /\ 1 \in DecodeCalls
    /\ LET tr == DocTracks(Written(hist[1]))[1]
           ch == Get(hist[1].timeline).tracks[1].children
       IN  /\ Len(tr.clipitem) = 1 /\ Len(tr.transitionitem) = 1
           /\ Len(tr.generatoritem) = 1
           /\ tr.generatoritem[1].start < tr.transitionitem[1].start
           /\ tr.transitionitem[1].start < tr.clipitem[1].start
           /\ Len(ch) = 3
           /\ ch[1].name = "g1" /\ ch[2].name = "t1" /\ ch[3].name = "c1"

\* C3: Tie-break.  The sort of Decoder.convertTrack is stable: two items
\* with equal start appear among the decoded children in the order of the
\* concatenation of the lists (clip items, transition items, generator
\* items, file order within a kind), for every combination of starts.
C3_StableSort ==
    \A i \in DecodeCalls :
        LET x == DocTracks(Written(hist[i]))
            t == Get(hist[i].timeline)
        IN  \A j \in 1..Len(x) :
                LET items == FileOrder(x[j])
                    ch    == t.tracks[j].children
                IN  \A k, l \in 1..Len(items) :
                        (k < l /\ items[k].start = items[l].start)
                            => ChildIndex(ch, items[k]) < ChildIndex(ch, items[l])

\* --------------------------------- markers, effects, filters (C9)

FeatureKeys == {"fcp7xml_effects", "fcp7xml_effect", "fcp7xml_filters"}

\* The metadata of a child under the effect and filter keys
FeatureMetadata(c) ==
    [k \in FeatureKeys |-> IF Has(c.metadata, k) THEN Some(c.metadata[k]) ELSE None]

\* Name, comment, in and out frame and colour of a marker
MarkerData(m) ==
    [name    |-> m.name,
     comment |-> m.comment,
     in      |-> Trunc(m.marked_range.start_time.value),
     out     |-> Trunc(ValueAdd(m.marked_range.start_time.value,
                                m.marked_range.duration.value)),
     color   |-> IF Has(m.metadata, "fcp7xml_color")
                 THEN Some(m.metadata["fcp7xml_color"]) ELSE None]

\* What C9 compares of a child
Features(c) ==
    [type     |-> c.type,
     name     |-> c.name,
     markers  |-> IF c.type = "Clip"
                  THEN [k \in 1..Len(c.markers) |-> MarkerData(c.markers[k])]
                  ELSE << >>,
     metadata |-> FeatureMetadata(c)]

FeaturesOf(t) ==
    [j \in 1..Len(t.tracks) |->
        [k \in 1..Len(t.tracks[j].children) |-> Features(t.tracks[j].children[k])]]

Garbage == [garbage |-> "this is not valid XML"]

\* No sequence, one sequence with one video track, or two sequences, the
\* first with a video and an audio track
SequenceLists ==
    {<< >>} \cup
    {<<SequenceOf("Main", <<tr>>, << >>)>> : tr \in SchemaTracks({FALSE}, MaxItems)} \cup
    {<<SequenceOf("Main", <<tr>>, <<SchemaTrack(<<<<"clip", 0, FALSE>>>>)>>),
       SequenceOf("Second", << >>, << >>)>> : tr \in SchemaTracks({FALSE}, MaxItems)}

\* The root elements: xmeml, xmeml with a field that does not parse into
\* the struct (<start>abc</start>), and another root
Roots == {<<"xmeml", TRUE>>, <<"xmeml", FALSE>>, <<"fcpxml", TRUE>>}

FailureStreams ==
    {<< >>, <<Garbage>>, <<XMLHeader, Garbage>>, <<XMLHeader, Doctype>>} \cup
    {<<XMLHeader, Doctype,
       [element |-> r[1], version |-> "5", sequence |-> seqs, fieldsParse |-> r[2]],
       Newline>> : r \in Roots, seqs \in SequenceLists}

\* The children Track.AppendChild refuses, by name
Refusals == {{}, {"t1"}, {"c2"}}

InitFailure ==
    /\ timeline = None
    /\ stream \in FailureStreams
    /\ err = ""
    /\ todo = <<"Decode", "Encode">>
    /\ hist = << >>
    /\ rejects \in Refusals
    /\ NoCalls

SpecFailure == InitFailure /\ [][Next]_vars

\* ------------------------------------------------ failures (C6, C7)

Range(q) == {q[k] : k \in DOMAIN q}

\* What of a stream is not text
Content(s) == SelectSeq(s, LAMBDA c : "text" \notin DOMAIN c)

\* The stream holds a well-formed xmeml document
WellFormedXmeml(s) ==
    /\ Content(s) # << >>
    /\ "element" \in DOMAIN Content(s)[1]
    /\ Content(s)[1].element = "xmeml"
    /\ Content(s)[1].fieldsParse

\* C6: Decode returns an error and a nil timeline when the stream is not
\* a well-formed xmeml document (the decode error) and when the root has
\* zero sequences (the no-sequence error), and returns neither of these
\* two errors for any other stream.
C6_DocumentFailures ==
    \A i \in 1..Len(hist) :
        hist[i].op = "Decode" =>
            LET s == hist[i].stream
            IN  /\ ~WellFormedXmeml(s) =>
                       hist[i].err = ErrDecodeXML /\ hist[i].timeline = None
                /\ (WellFormedXmeml(s) /\ Len(Content(s)[1].sequence) = 0) =>
                       hist[i].err = ErrNoSequence /\ hist[i].timeline = None
                /\ (WellFormedXmeml(s) /\ Len(Content(s)[1].sequence) > 0) =>
                       hist[i].err \notin {ErrDecodeXML, ErrNoSequence}

\* an xmeml root without a sequence was decoded
C6_Witness ==
    /\ Len(hist) = 1 /\ hist[1].op = "Decode"
    /\ WellFormedXmeml(hist[1].stream)
    /\ Len(Content(hist[1].stream)[1].sequence) = 0
    /\ hist[1].err = ErrNoSequence
    /\ timeline = None

\* C7: Failure policy.  A child the track refuses does not abort the
\* decode: Decode of a well-formed document with a sequence succeeds, and
\* every track holds the children of exactly the items that were not
\* refused.
C7_ItemProblemTolerated ==
    \A i \in 1..Len(hist) :
        (/\ hist[i].op = "Decode"
         /\ WellFormedXmeml(hist[i].stream)
         /\ Len(Content(hist[i].stream)[1].sequence) > 0) =>
            /\ hist[i].err = ""
            /\ LET x == DocTracks(Content(hist[i].stream)[1])
                   t == Get(hist[i].timeline)
               IN  /\ Len(t.tracks) = Len(x)
                   /\ \A j \in 1..Len(x) :
                       {<<ListOf(c), c.name>> : c \in Range(t.tracks[j].children)}
                           = {<<it.list, it.name>> :
                                 it \in {u \in Range(FileOrder(x[j])) : u.name \notin rejects}}

\* ------------------------------------------------ inputs: rates

MaxTimebase == 60

\* A document with one clip item at the rate (timebase, ntsc)
RateStreams ==
    {FileOf([version |-> "5",
             sequence |-> <<[name |-> "Rate",
                             rate |-> [timebase |-> tb, ntsc |-> fl],
                             media |-> [video |-> Some(<<[enabled |-> None,
                                 clipitem |-> <<[SchemaItem("clip", 1, 0, FALSE)
                                                   EXCEPT !.rate = [timebase |-> tb,
                                                                    ntsc |-> fl]]>>,
                                 transitionitem |-> << >>,
                                 generatoritem |-> << >>]>>),
                                        audio |-> None]]>>]) :
        tb \in 1..MaxTimebase, fl \in BOOLEAN}

InitRate ==
    /\ timeline = None
    /\ stream \in RateStreams
    /\ err = ""
    /\ todo = <<"Decode", "Encode">>
    /\ hist = << >>
    /\ rejects = {}
    /\ NoCalls

SpecRate == InitRate /\ [][Next]_vars

\* ------------------------------------------------ rates (C10)

CanonicalPairs ==
    {[timebase |-> 24, ntsc |-> FALSE], [timebase |-> 25, ntsc |-> FALSE],
     [timebase |-> 30, ntsc |-> FALSE], [timebase |-> 50, ntsc |-> FALSE],
     [timebase |-> 60, ntsc |-> FALSE], [timebase |-> 24, ntsc |-> TRUE],
     [timebase |-> 30, ntsc |-> TRUE], [timebase |-> 60, ntsc |-> TRUE]}

\* C10: Rate round-trip.  A canonical (timebase, flag) pair decoded to a
\* frame rate and encoded again comes out as the same pair: the document
\* Encode writes for the decoded timeline carries the rate of the document
\* that was decoded, on the sequence and on the item.
C10_RateRoundTrip ==
    \A i \in 1..(Len(hist) - 1) :
        (/\ hist[i].op = "Decode" /\ hist[i].err = "" /\ hist[i + 1].op = "Encode"
         /\ Written(hist[i]).sequence[1].rate \in CanonicalPairs) =>
            /\ hist[i + 1].err = ""
            /\ Written(hist[i + 1]).sequence[1].rate = Written(hist[i]).sequence[1].rate
            /\ DocTracks(Written(hist[i + 1]))[1].clipitem[1].rate
                   = DocTracks(Written(hist[i]))[1].clipitem[1].rate

\* 29.97: timebase 30 with the flag went through Decode and Encode
C10_Witness ==
    /\ Len(hist) = 2 /\ hist[2].op = "Encode" /\ hist[2].err = ""
    /\ Written(hist[1]).sequence[1].rate = [timebase |-> 30, ntsc |-> TRUE]
    /\ Get(hist[1].timeline).tracks[1].children[1].source_range[1].duration.rate
           = FPS(30000, 1001)
    /\ Written(hist[2]).sequence[1].rate = [timebase |-> 30, ntsc |-> TRUE]

\* ------------------------------------------------ inputs: frame rates

MaxCentiRate == 6000

\* The rates of TestIsNTSCRate, the three exact NTSC rates, and every
\* hundredth from 23.90 to MaxCentiRate / 100
ProbeRates ==
    {FPS(23976, 1000), FPS(2997, 100), FPS(5994, 100),
     FPS(24, 1), FPS(25, 1), FPS(30, 1), FPS(60, 1),
     FPS(24000, 1001), FPS(30000, 1001), FPS(60000, 1001)} \cup
    {FPS(n, 100) : n \in 2390..MaxCentiRate}

\* One video track with one clip of 100 frames at the rate
ProbeTimelines ==
    {BuildTimeline("NTSC Test", <<"Video">>,
                   <<<<NewClip("NTSC Clip", NewMissingReference,
                               Some(Frames(0, 100, r)), << >>), 1>>>>) :
        r \in ProbeRates}

InitNTSC ==
    /\ timeline \in {Some(t) : t \in ProbeTimelines}
    /\ stream = << >>
    /\ err = ""
    /\ todo = <<"Encode", "Decode">>
    /\ hist = << >>
    /\ rejects = {}
    /\ NoCalls

SpecNTSC == InitNTSC /\ [][Next]_vars

\* ------------------------------------------------ isNTSCRate (C11)

\* |r - c / 1001| < 1/100, in integers
Within001(r, c) ==
    \/ (1001 * r.n >= c * r.d /\ 1001 * r.n - c * r.d <= (1001 * r.d - 1) \div 100)
    \/ (1001 * r.n < c * r.d /\ c * r.d - 1001 * r.n <= (1001 * r.d - 1) \div 100)

\* The rate of the only clip of a timeline
ProbedRate(t) == Get(t.tracks[1].children[1].source_range).duration.rate

\* C11: isNTSCRate(r) is true exactly when |r - c| < 0.01 for some c in
\* 24000/1001, 30000/1001, 60000/1001: the flag Encode writes for a
\* timeline whose first clip has rate r is that truth value; it is set for
\* 23.976, 29.97 and 59.94 and not set for 24, 25, 30 and 60.
C11_NTSCClassification ==
    \A i \in 1..Len(hist) :
        (hist[i].op = "Encode" /\ hist[i].err = "") =>
            LET r    == ProbedRate(Get(hist[i].timeline))
                flag == Written(hist[i]).sequence[1].rate.ntsc
            IN  /\ flag <=> (Within001(r, 24000) \/ Within001(r, 30000)
                             \/ Within001(r, 60000))
                /\ r \in {FPS(23976, 1000), FPS(2997, 100), FPS(5994, 100)} => flag
                /\ r \in {FPS(24, 1), FPS(25, 1), FPS(30, 1), FPS(60, 1)} => ~flag

\* 23.976 was encoded with the flag set
C11_Witness ==
    /\ Len(hist) >= 1 /\ hist[1].op = "Encode" /\ hist[1].err = ""
    /\ ProbedRate(Get(hist[1].timeline)) = FPS(23976, 1000)
    /\ Written(hist[1]).sequence[1].rate = [timebase |-> 24, ntsc |-> TRUE]

\* ------------------------------------------------ inputs: encoder

R25 == FPS(25, 1)

\* opentimelineio.NewImageSequenceReference, as the Decoder builds it
StillsReference ==
    [kind |-> "ImageSequenceReference", name |-> <<"s", ".", "#", "#", "#", "#">>,
     target_url |-> [scheme |-> "file", path |-> <<"/", "stills">>],
     available_range |-> Some(Frames(0, 40, R25)), metadata |-> EmptyDict]

\* Clips at 25 and 30000/1001 (one of them disabled), a gap, a transition,
\* a generator clip, a clip with an image sequence reference, and a clip
\* with no source range and no available range
EncodeChildren ==
    {NewClip("A", NewMissingReference, Some(Frames(0, 50, R25)), << >>),
     [NewClip("B", VideoMov, Some(Frames(5, 30, R2997)), << >>) EXCEPT !.enabled = FALSE],
     NewGapWithDuration(NewRationalTime(Whole(25), R25)),
     NewTransition("Dissolve", NewRationalTime(Whole(5), R25),
                   NewRationalTime(Whole(5), R25), EmptyDict),
     [NewClip("Slug", NewMissingReference, Some(Frames(2, 20, R25)), << >>)
         EXCEPT !.metadata = "fcp7xml_generator" :> TRUE],
     NewClip("Stills", StillsReference, Some(Frames(0, 40, R25)), << >>),
     NewClip("Offline", NewMissingReference, None, << >>)}

\* A video track of the children, enabled or not, alone or followed by an
\* audio track with one clip at 24
EncodeTimelines ==
    {[name   |-> "Encode Test",
      tracks |-> <<[name |-> <<"Video", 1>>, kind |-> "Video", enabled |-> en,
                    children |-> cs]>> \o more] :
        cs \in SeqUpTo(EncodeChildren, MaxChildren),
        en \in BOOLEAN,
        more \in {<< >>,
                  <<[name |-> <<"Audio", 1>>, kind |-> "Audio", enabled |-> TRUE,
                     children |-> <<NewClip("Tone", NewMissingReference,
                                            Some(Frames(0, 10, R24)), << >>)>>]>>}}

InitEncode ==
    /\ timeline \in {Some(t) : t \in EncodeTimelines}
    /\ stream = << >>
    /\ err = ""
    /\ todo = <<"Encode", "Decode">>
    /\ hist = << >>
    /\ rejects = {}
    /\ NoCalls

SpecEncode == InitEncode /\ [][Next]_vars

\* ------------------------------------------------ working rate (C12)

\* The clips of a timeline, scanning its tracks in order
ClipsInOrder(t) ==
    LET RECURSIVE from(_)
        from(j) == IF j > Len(t.tracks) THEN << >>
                   ELSE SelectSeq(t.tracks[j].children, LAMBDA c : c.type = "Clip")
                        \o from(j + 1)
    IN  from(1)

\* Every rate a document carries: of the sequence, of every item, of every
\* file
RatesWritten(x) ==
    {x.sequence[1].rate} \cup
    UNION {{it.rate : it \in Range(tr.clipitem)} \cup
           {it.rate : it \in Range(tr.transitionitem)} \cup
           {it.rate : it \in Range(tr.generatoritem)} \cup
           {Get(it.file).rate : it \in {u \in Range(tr.clipitem) : u.file # None}} :
              tr \in Range(DocTracks(x))}

\* C12: Working rate.  Encode uses one rate for the whole sequence: the
\* rate of the first clip found scanning the tracks in order, 24 only when
\* the timeline has no clip; a track that starts with a gap or a
\* transition followed by a clip supplies that clip's rate.
C12_WorkingRate ==
    \A i \in 1..Len(hist) :
        (hist[i].op = "Encode" /\ hist[i].err = "") =>
            LET clips == ClipsInOrder(Get(hist[i].timeline))
                x     == Written(hist[i])
            IN  /\ Cardinality(RatesWritten(x)) = 1
                /\ rateToFrameRate(x.sequence[1].rate)
                       = IF clips = << >> THEN FPS(24, 1)
                         ELSE Get(ClipDuration(clips[1])).rate

\* ------------------------------------------------ inputs: enabled flags

\* <enabled> absent, TRUE or FALSE
Flags == {None, Some(TRUE), Some(FALSE)}

NestedSequence == SequenceOf("Nested", << >>, << >>)

\* A track of clip items one after the other, each with its enabled flag
\* and with or without a nested sequence: picked[i] = <<flag, nested>>
FlagTrack(flag, picked) ==
    [enabled |-> flag,
     clipitem |-> [i \in 1..Len(picked) |->
                     [SchemaItem("clip", i, 10 * (i - 1), FALSE)
                        EXCEPT !.enabled = picked[i][1],
                               !.sequence = IF picked[i][2] THEN Some(NestedSequence)
                                            ELSE None]],
     transitionitem |-> << >>,
     generatoritem |-> << >>]

FlagStreams ==
    {FileOf([version |-> "5",
             sequence |-> <<SequenceOf("Flags", <<FlagTrack(flag, picked)>>, << >>)>>]) :
        flag \in Flags, picked \in SeqUpTo(Flags \X BOOLEAN, MaxItems)}

InitFlags ==
    /\ timeline = None
    /\ stream \in FlagStreams
    /\ err = ""
    /\ todo = <<"Decode", "Encode", "Decode">>
    /\ hist = << >>
    /\ rejects = {}
    /\ NoCalls

SpecFlags == InitFlags /\ [][Next]_vars

\* ------------------------------------------------ enabled state (C13)

\* The enabled state a flag stands for
FlagState(flag) == flag # Some(FALSE)

\* The enabled states of the tracks and of the clips of every track
EnabledStates(t) ==
    [j \in 1..Len(t.tracks) |->
        [track |-> t.tracks[j].enabled,
         clips |-> LET cl == SelectSeq(t.tracks[j].children, LAMBDA c : c.type = "Clip")
                   IN  [k \in 1..Len(cl) |-> cl[k].enabled]]]

\* C13: Enabled state.  A clip item whose enabled flag is false decodes to
\* a disabled clip and every other clip item to an enabled clip; the same
\* for tracks; and decode(encode(t)) keeps the enabled state of every
\* track and clip.
C13_EnabledState ==
    /\ \A i \in DecodeCalls :
        LET x == DocTracks(Written(hist[i]))
            t == Get(hist[i].timeline)
        IN  \A j \in 1..Len(x) :
                /\ t.tracks[j].enabled = FlagState(x[j].enabled)
                /\ \A k \in 1..Len(x[j].clipitem) :
                    \E m \in 1..Len(t.tracks[j].children) :
                        /\ t.tracks[j].children[m].name = x[j].clipitem[k].name
                        /\ t.tracks[j].children[m].enabled
                               = FlagState(x[j].clipitem[k].enabled)
    /\ \A i \in EncodeDecodePairs :
        /\ hist[i + 1].err = ""
        /\ EnabledStates(Get(hist[i + 1].timeline)) = EnabledStates(Get(hist[i].timeline))

\* ------------------------------------------------ empty timeline (C14)

\* C14: An empty timeline (zero tracks) encodes without error to a
\* document with exactly one sequence that has no video and no audio
\* element, and decoding that document gives a timeline with zero video
\* and zero audio tracks.
C14_EmptyTimeline ==
    \A i \in 1..Len(hist) :
        (/\ hist[i].op = "Encode" /\ hist[i].timeline # None
         /\ Get(hist[i].timeline).tracks = << >>) =>
            /\ hist[i].err = ""
            /\ Len(Written(hist[i]).sequence) = 1
            /\ Written(hist[i]).sequence[1].media.video = None
            /\ Written(hist[i]).sequence[1].media.audio = None
            /\ (i < Len(hist) /\ hist[i + 1].op = "Decode") =>
                   /\ hist[i + 1].err = ""
                   /\ TracksOfKind(Get(hist[i + 1].timeline), "Video") = << >>
                   /\ TracksOfKind(Get(hist[i + 1].timeline), "Audio") = << >>

\* the timeline without tracks was encoded and decoded
C14_Witness ==
    /\ Len(hist) = 2 /\ hist[1].op = "Encode" /\ hist[2].op = "Decode"
    /\ Get(hist[1].timeline).tracks = << >>
    /\ hist[2].err = ""
    /\ Get(timeline).tracks = << >>

\* ------------------------------------------------ inputs: names

MaxNameLen == 3

NameChars == {"a", "z", "A", "Z", "0", "9", "-", "_", " ", "!", "."}

\* The inputs of TestSanitizeID and every string over NameChars of at most
\* MaxNameLen characters
ProbeNames ==
    {<<"s", "i", "m", "p", "l", "e">>,
     <<"w", "i", "t", "h", " ", "s", "p", "a", "c", "e", "s">>,
     <<"w", "i", "t", "h", "-", "d", "a", "s", "h", "e", "s">>,
     <<"w", "i", "t", "h", "_", "u", "n", "d", "e", "r", "s", "c", "o", "r", "e", "s">>,
     <<"w", "i", "t", "h", "1", "2", "3", "n", "u", "m", "b", "e", "r", "s">>,
     <<"w", "i", "t", "h", "!", "@", "#", "s", "p", "e", "c", "i", "a", "l">>} \cup
    SeqUpTo(NameChars, MaxNameLen)

\* One video track with one clip whose external reference has the name
NameTimelines ==
    {BuildTimeline("Names", <<"Video">>,
                   <<<<NewClip("Named",
                               NewExternalReference(n, [scheme |-> "file",
                                                        path |-> <<"/", "media">>],
                                                    Some(Frames(0, 200, R24))),
                               Some(Frames(0, 100, R24)), << >>), 1>>>>) :
        n \in ProbeNames}

InitNames ==
    /\ timeline \in {Some(t) : t \in NameTimelines}
    /\ stream = << >>
    /\ err = ""
    /\ todo = <<"Encode", "Decode">>
    /\ hist = << >>
    /\ rejects = {}
    /\ NoCalls

SpecNames == InitNames /\ [][Next]_vars

\* ------------------------------------------------ sanitizeID (C15)

AsciiLetters ==
    {"a", "b", "c", "d", "e", "f", "g", "h", "i", "j", "k", "l", "m", "n", "o", "p",
     "q", "r", "s", "t", "u", "v", "w", "x", "y", "z", "A", "B", "C", "D", "E", "F",
     "G", "H", "I", "J", "K", "L", "M", "N", "O", "P", "Q", "R", "S", "T", "U", "V",
     "W", "X", "Y", "Z"}

AsciiDigits == {"0", "1", "2", "3", "4", "5", "6", "7", "8", "9"}

\* Letters, digits, '-' and '_' kept in order, spaces turned into '_',
\* everything else dropped, "file" when nothing is left
Sanitized(s) ==
    LET kept == SelectSeq(s, LAMBDA c : c \in AsciiLetters \cup AsciiDigits
                                              \cup {"-", "_", " "})
        out  == [k \in 1..Len(kept) |-> IF kept[k] = " " THEN "_" ELSE kept[k]]
    IN  IF out = << >> THEN <<"f", "i", "l", "e">> ELSE out

\* The name of the reference of the only clip, and the id of its file
NameGiven(h) == Get(Get(h.timeline).tracks[1].children[1].media_reference).name

IDWritten(h) == Get(DocTracks(Written(h))[1].clipitem[1].file).id

\* C15: sanitizeID(s) keeps every ASCII letter, digit, '-' and '_' of s in
\* order, replaces every space by '_', drops every other character, and
\* returns "file" when nothing is left: the id Encode writes for a file is
\* "file-" followed by that, and that is never empty; "" gives "file",
\* "with spaces" gives "with_spaces", "with!@#special" gives "withspecial".
C15_SanitizeID ==
    \A i \in 1..Len(hist) :
        (hist[i].op = "Encode" /\ hist[i].err = "") =>
            LET n  == NameGiven(hist[i])
                id == IDWritten(hist[i])
            IN  /\ id = <<"f", "i", "l", "e", "-">> \o Sanitized(n)
                /\ Len(id) > 5
                /\ n = << >> => id = <<"f", "i", "l", "e", "-", "f", "i", "l", "e">>
                /\ n = <<"w", "i", "t", "h", " ", "s", "p", "a", "c", "e", "s">> =>
                       SubSeq(id, 6, Len(id))
                           = <<"w", "i", "t", "h", "_", "s", "p", "a", "c", "e", "s">>
                /\ n = <<"w", "i", "t", "h", "!", "@", "#", "s", "p", "e", "c", "i", "a", "l">> =>
                       SubSeq(id, 6, Len(id))
                           = <<"w", "i", "t", "h", "s", "p", "e", "c", "i", "a", "l">>

\* "with spaces" was encoded as file-with_spaces
C15_Witness ==
    /\ Len(hist) >= 1 /\ hist[1].op = "Encode" /\ hist[1].err = ""
    /\ NameGiven(hist[1]) = <<"w", "i", "t", "h", " ", "s", "p", "a", "c", "e", "s">>
    /\ IDWritten(hist[1]) = <<"f", "i", "l", "e", "-", "w", "i", "t", "h", "_",
                              "s", "p", "a", "c", "e", "s">>

\* ------------------------------------------------ encode failures (C16, C17)

\* The clips of a timeline that Encode hands to convertClip: those not
\* marked as generators
PlainClips(t) ==
    SelectSeq(ClipsInOrder(t),
              LAMBDA c : ~(Has(c.metadata, "fcp7xml_generator") /\ c.metadata.fcp7xml_generator))

\* C16: Encoding a clip whose media reference is of an unrecognized kind
\* (neither an external nor a missing reference) fails the Encode call.
C16_UnrecognizedReferenceFails ==
    \A i \in 1..Len(hist) :
        (/\ hist[i].op = "Encode" /\ hist[i].timeline # None
         /\ \E c \in Range(PlainClips(Get(hist[i].timeline))) :
               /\ c.media_reference # None
               /\ Get(c.media_reference).kind \notin {"ExternalReference", "MissingReference"})
            => hist[i].err # ""

\* C17: Encode fails when some clip of the timeline has neither a source
\* range nor an available range; the call ends there and no byte reaches
\* the writer.
C17_DurationUnavailable ==
    \A i \in 1..Len(hist) :
        (/\ hist[i].op = "Encode" /\ hist[i].timeline # None
         /\ \E c \in Range(ClipsInOrder(Get(hist[i].timeline))) :
               /\ c.source_range = None
               /\ \/ c.media_reference = None
                  \/ Get(c.media_reference).available_range = None)
            => /\ hist[i].err # ""
               /\ hist[i].stream = << >>
               /\ i = Len(hist) /\ todo = << >> /\ stream = << >>

\* an encode of a clip, a gap and the clip without ranges failed, nothing
\* written
C17_Witness ==
    /\ Len(hist) = 1 /\ hist[1].op = "Encode" /\ hist[1].err # ""
    /\ LET ch == Get(hist[1].timeline).tracks[1].children
       IN  /\ Len(ch) = 3
           /\ ch[1].type = "Clip" /\ ch[1].name = "A"
           /\ ch[2].type = "Gap"
           /\ ch[3].type = "Clip" /\ ch[3].name = "Offline"
    /\ stream = << >>

\* ------------------------------------------------------ write order (C18)

\* C18: On a successful Encode the writes to the output are, in this order
\* and with nothing else: the XML declaration, the line "<!DOCTYPE xmeml>",
\* the serialized document (one xmeml root with exactly one sequence), and
\* one trailing newline.
C18_WriteOrder ==
    \A i \in 1..Len(hist) :
        (hist[i].op = "Encode" /\ hist[i].err = "")
            => LET w == hist[i].stream
               IN  /\ Len(w) = 4
                   /\ w[1] = [text |-> "<?xml version=\"1.0\" encoding=\"UTF-8\"?>\n"]
                   /\ w[2] = [text |-> "<!DOCTYPE xmeml>\n"]
                   /\ DOMAIN w[3] = {"element", "version", "sequence", "fieldsParse"}
                   /\ w[3].element = "xmeml"
                   /\ Len(w[3].sequence) = 1
                   /\ w[3].sequence[1].name = Get(hist[i].timeline).name
                   /\ w[4] = [text |-> "\n"]

\* an encode of a timeline with two tracks succeeded and its output is what
\* the stream held before the decode that followed
C18_Witness ==
    /\ Len(hist) = 2
    /\ hist[1].op = "Encode" /\ hist[1].err = ""
    /\ Len(Get(hist[1].timeline).tracks) = 2
    /\ hist[2].op = "Decode" /\ hist[2].stream = hist[1].stream

\* -------------------------------------------------- position cursor (C20)

\* The item the encoder emitted for the non-gap child k of a track
ItemOf(children, k, fcpTrack) ==
    LET l == ListOf(children[k])
    IN  fcpTrack[l][CountInList(children, k, l)]

\* The cursor over one track: starts, ends, in and out points, no overlap
CursorKept(children, fcpTrack) ==
    LET emitted == {k \in 1..Len(children) : children[k].type # "Gap"}
    IN  /\ \A k \in emitted :
            LET c  == children[k]
                it == ItemOf(children, k, fcpTrack)
            IN  /\ it.start = SumFrames(children, k - 1)
                /\ it.end = it.start + ChildFrames(c)
                /\ c.type = "Clip" =>
                      /\ c.source_range # None =>
                            it.in = Trunc(Get(c.source_range).start_time.value)
                      /\ it.out = it.in + it.duration
                      /\ it.duration = it.end - it.start
        /\ \A k, n \in emitted :
            k < n => ItemOf(children, k, fcpTrack).end <= ItemOf(children, n, fcpTrack).start

\* C20: Encoder position cursor.  In every encoded track each emitted clip,
\* generator or transition item starts at the sum of the durations of all
\* the children before it (a transition counting for its in-offset plus
\* out-offset) and ends at its start plus its own duration; a clip or
\* generator item has in = the start of the clip's source range,
\* out = in + duration and duration = end - start; no two items of a track
\* overlap.
C20_PositionCursor ==
    \A i \in 1..Len(hist) :
        (hist[i].op = "Encode" /\ hist[i].err = "") =>
            LET t == Get(hist[i].timeline)
                x == DocTracks(Written(hist[i]))
            IN  \A j \in 1..Len(x) : CursorKept(t.tracks[j].children, x[j])

\* "Clip 2" (in 5, 30 frames), the dissolve of 5 + 5 and the slug: the
\* transition runs from 30 to 40 and the generator from 40 to 60
C20_Witness ==
    /\ hist # << >> /\ hist[1].op = "Encode" /\ hist[1].err = ""
    /\ LET ch == Get(hist[1].timeline).tracks[1].children
           tr == DocTracks(Written(hist[1]))[1]
       IN  /\ Len(ch) = 3
           /\ ch[1].type = "Clip" /\ ch[1].name = "Clip 2"
           /\ ch[2].type = "Transition"
           /\ ch[3].type = "Clip" /\ ch[3].name = "Slug"
           /\ tr.clipitem[1].in = 5 /\ tr.clipitem[1].out = 35
           /\ tr.transitionitem[1].start = 30 /\ tr.transitionitem[1].end = 40
           /\ tr.generatoritem[1].start = 40 /\ tr.generatoritem[1].end = 60

\* ------------------------------------------- independent callers (C19)

MaxCallers == 2

Callers == 1..MaxCallers

\* Every Encoder holding one and the same io.Writer
WriterOf_shared(c) == 1

\* NewEncoder(w): the Encoder of caller c holds the writer caller c made
WriterOf(c) == c

\* A call in flight: its receiver's and its own local variables.  pc is the
\* statement it is at, given and input are what the caller passed, timeline
\* is the caller's timeline (the argument of Encode, the result of Decode),
\* reader what is left to read of the stream, xmeml the local variable of
\* Encode and of Decode; overlapped records that the call took a step while
\* another call was under way.
NewCall(op, tl, s) ==
    [op |-> op, pc |-> IF op = "Encode" THEN "convert" ELSE "parse",
     given |-> tl, timeline |-> tl, input |-> s, reader |-> s,
     xmeml |-> None, err |-> "", overlapped |-> FALSE]

\* nil, a clip alone, a track with a clip, a transition and a generator
\* clip over an audio track, and a clip with no range at all
ConcTimelines ==
    {None,
     Some(BuildTimeline("One", <<"Video">>,
            <<<<NewClip("A", NewMissingReference, Some(Frames(0, 50, R25)), << >>), 1>>>>)),
     Some(BuildTimeline("Two", <<"Video", "Audio">>,
            <<<<NewClip("B", VideoMov, Some(Frames(5, 30, R2997)), << >>), 1>>,
              <<NewTransition("Dissolve", NewRationalTime(Whole(5), R25),
                              NewRationalTime(Whole(5), R25), EmptyDict), 1>>,
              <<NewClip("Tone", NewMissingReference, Some(Frames(0, 10, R24)), << >>), 2>>>>)),
     Some(BuildTimeline("Off", <<"Video">>,
            <<<<NewClip("Offline", NewMissingReference, None, << >>), 1>>>>))}

\* What is not XML, a document without a sequence, and the documents of
\* the timelines above
ConcStreams ==
    {<<Garbage>>,
     <<XMLHeader, Doctype,
       [element |-> "xmeml", version |-> "5", sequence |-> << >>, fieldsParse |-> TRUE],
       Newline>>} \cup
    {Encode(tl).written : tl \in {t \in ConcTimelines : Encode(t).err = ""}}

ConcCalls ==
    {NewCall("Encode", tl, << >>) : tl \in ConcTimelines} \cup
    {NewCall("Decode", None, s) : s \in ConcStreams}

Busy(call) == call.pc \notin {"convert", "parse", "done"}

\* The call of caller c after a step that leaves it as next
Step(c, next) ==
    [next EXCEPT !.overlapped = @ \/ \E o \in Callers \ {c} : Busy(calls[o])]

\* Encoder.Encode up to the first write: the nil check and convertTimeline
EncodeConvert(c) ==
    /\ calls[c].op = "Encode" /\ calls[c].pc = "convert"
    /\ IF calls[c].timeline = None
       THEN calls' = [calls EXCEPT ![c] =
                        Step(c, [@ EXCEPT !.pc = "done", !.err = ErrNilTimeline])]
       ELSE \E r \in {convertTimeline(Get(calls[c].timeline))} :
                calls' = [calls EXCEPT ![c] =
                            Step(c, IF ~r.ok
                                    THEN [@ EXCEPT !.pc = "done", !.err = ErrConvertTimeline]
                                    ELSE [@ EXCEPT !.pc = "header", !.xmeml = r.xmeml])]
    /\ UNCHANGED <<timeline, stream, err, todo, hist, rejects, outputs>>

\* What Encode writes at pc
ChunkAt(call) ==
    CASE call.pc = "header"   -> XMLHeader
      [] call.pc = "doctype"  -> Doctype
      [] call.pc = "document" -> Marshal(Get(call.xmeml))
      [] call.pc = "newline"  -> Newline

AfterWrite(pc) ==
    CASE pc = "header"   -> "doctype"
      [] pc = "doctype"  -> "document"
      [] pc = "document" -> "newline"
      [] pc = "newline"  -> "done"

\* One of the four writes of Encoder.Encode to e.w
EncodeWrite(c) ==
    /\ calls[c].op = "Encode"
    /\ calls[c].pc \in {"header", "doctype", "document", "newline"}
    /\ outputs' = [outputs EXCEPT ![WriterOf(c)] = Append(@, ChunkAt(calls[c]))]
    /\ calls' = [calls EXCEPT ![c] = Step(c, [@ EXCEPT !.pc = AfterWrite(calls[c].pc)])]
    /\ UNCHANGED <<timeline, stream, err, todo, hist, rejects>>

\* Decoder.Decode up to the call of convertSequence: d.r is read into the
\* local xmeml and the number of sequences is looked at
DecodeParse(c) ==
    /\ calls[c].op = "Decode" /\ calls[c].pc = "parse"
    /\ \E x \in {Unmarshal(calls[c].reader)} :
           calls' = [calls EXCEPT ![c] =
                       Step(c, IF x = None
                               THEN [@ EXCEPT !.pc = "done", !.reader = << >>,
                                              !.err = ErrDecodeXML]
                               ELSE IF Len(Get(x).sequence) = 0
                               THEN [@ EXCEPT !.pc = "done", !.reader = << >>,
                                              !.err = ErrNoSequence]
                               ELSE [@ EXCEPT !.pc = "sequence", !.reader = << >>,
                                              !.xmeml = x])]
    /\ UNCHANGED <<timeline, stream, err, todo, hist, rejects, outputs>>

\* return d.convertSequence(&xmeml.Sequence[0])
DecodeConvert(c) ==
    /\ calls[c].op = "Decode" /\ calls[c].pc = "sequence"
    /\ \E r \in {convertSequence(Get(calls[c].xmeml).sequence[1], {})} :
           calls' = [calls EXCEPT ![c] =
                       Step(c, IF ~r.ok
                               THEN [@ EXCEPT !.pc = "done", !.err = ErrConvertTrack]
                               ELSE [@ EXCEPT !.pc = "done", !.timeline = r.timeline])]
    /\ UNCHANGED <<timeline, stream, err, todo, hist, rejects, outputs>>

NextConc ==
    \E c \in Callers :
        EncodeConvert(c) \/ EncodeWrite(c) \/ DecodeParse(c) \/ DecodeConvert(c)

InitConc ==
    /\ timeline = None
    /\ stream = << >>
    /\ err = ""
    /\ todo = << >>
    /\ hist = << >>
    /\ rejects = {}
    /\ calls \in [Callers -> ConcCalls]
    /\ outputs = [w \in Callers |-> << >>]

SpecConc == InitConc /\ [][NextConc]_vars

\* s is the beginning of t
IsPrefix(s, t) == Len(s) <= Len(t) /\ s = SubSeq(t, 1, Len(s))

\* C19: Decode and Encode calls share no mutable state.  Whatever the
\* interleaving of the calls of independent callers, each with its own
\* Encoder or Decoder, stream and timeline, a finished call has returned
\* what the same call returns when it runs alone, which depends on its own
\* input only, and Encode leaves the timeline it is given unchanged.
C19_IndependentCalls ==
    \A c \in DOMAIN calls :
        LET call == calls[c]
        IN  IF call.op = "Encode"
            THEN /\ call.timeline = call.given
                 /\ IsPrefix(outputs[c], Encode(call.given).written)
                 /\ call.pc = "done" =>
                        /\ call.err = Encode(call.given).err
                        /\ outputs[c] = Encode(call.given).written
            ELSE /\ outputs[c] = << >>
                 /\ call.pc = "done" =>
                        /\ call.err = Decode(call.input, {}).err
                        /\ call.timeline = Decode(call.input, {}).timeline

\* an Encode and a Decode that overlapped have both returned without error
C19_Witness ==
    /\ calls # << >>
    /\ calls[1].op = "Encode" /\ calls[2].op = "Decode"
    /\ \A c \in {1, 2} :
          calls[c].pc = "done" /\ calls[c].err = "" /\ calls[c].overlapped
    /\ Len(Get(calls[1].given).tracks) = 2
    /\ Len(outputs[1]) = 4

\* ------------------------------------------------ inputs: single items

MaxProbes == 2

Flat24 == [timebase |-> 24, ntsc |-> FALSE]

Flat25 == [timebase |-> 25, ntsc |-> FALSE]

FileURL(path) == [scheme |-> "file", path |-> path]

\* A <file> element with the name and the path URL given
FileNamed(name, url) ==
    [id |-> <<"f", "1">>, name |-> name, pathurl |-> url, rate |-> NTSC30,
     duration |-> 100]

\* A <clipitem> at 0 whose duration, start and end say nothing of in and out
ProbeClip(name, rate, in, out, file, sequence) ==
    [id |-> "", name |-> name, enabled |-> None, duration |-> 100, rate |-> rate,
     start |-> 0, end |-> 7, in |-> in, out |-> out, file |-> file,
     sequence |-> sequence, filter |-> << >>, effect |-> << >>, marker |-> << >>]

\* The file names of TestDecoder_DecodeWithImageSequence and their like:
\* hashes and printf placeholders inside the name and at its end, three
\* hashes only, no pattern
ProbeFileNames ==
    [k4  |-> <<"a", ".", "m", "o", "v">>,
     k5  |-> <<"s", ".", "#", "#", "#", "#", ".", "x">>,
     k6  |-> <<"s", ".", "#", "#", "#", "#">>,
     k7  |-> <<"s", ".", "#", "#", "#", ".", "x">>,
     k8  |-> <<"s", ".", "%", "0", "4", "d", ".", "x">>,
     k9  |-> <<"s", ".", "%", "0", "4", "d">>,
     k10 |-> <<"s", ".", "%", "0", "1", "0", "d", "x">>,
     k11 |-> <<"5", "0", "%", "d", "o", "n", "e">>]

\* Clip items: rates other than the sequence's, no file, a file without a
\* path URL, files of every name above, and an embedded sequence
ProbeClips ==
    {ProbeClip("k1", Flat24, 3, 13, None, None),
     ProbeClip("k2", NTSC30, 0, 7, None, None),
     ProbeClip("k3", Flat25, 5, 5,
               Some(FileNamed(<<"a", ".", "m", "o", "v">>, EmptyURL)), None),
     [ProbeClip("k12", Flat24, 2, 12,
                Some(FileNamed(<<"a", ".", "m", "o", "v">>, FileURL(<<"/", "a.mov">>))),
                Some(NestedSequence))
         EXCEPT !.marker = <<RedMarker>>],
     [ProbeClip("k13", Flat24, 0, 10,
                Some(FileNamed(<<"a", ".", "m", "o", "v">>, FileURL(<<"/", "a.mov">>))), None)
         EXCEPT !.id = "clipitem-1", !.marker = <<RedMarker>>,
                !.filter = <<BlurFilter>>, !.effect = <<BlurEffect>>]} \cup
    {ProbeClip(k, NTSC30, 1, 9,
               Some(FileNamed(ProbeFileNames[k], FileURL(<<"/", k>>))), None) :
        k \in DOMAIN ProbeFileNames}

\* Transition items of even, odd and no length
ProbeTransitions ==
    {[name |-> "x1", rate |-> NTSC30, start |-> 0, end |-> 4,
      alignment |-> "center", effect |-> None],
     [name |-> "x2", rate |-> Flat25, start |-> 0, end |-> 5,
      alignment |-> "end-black", effect |-> Some(DissolveEffect)],
     [name |-> "x3", rate |-> Flat24, start |-> 0, end |-> 0,
      alignment |-> "", effect |-> None]}

\* Generator items, one of them of no length
ProbeGenerators ==
    {[name |-> "n1", duration |-> 10, rate |-> Flat24, start |-> 0, end |-> 10,
      in |-> 4, out |-> 14, enabled |-> None, effect |-> Some(BlurEffect),
      filter |-> <<BlurFilter>>, marker |-> <<RedMarker>>],
     [name |-> "n2", duration |-> 0, rate |-> NTSC30, start |-> 0, end |-> 0,
      in |-> 0, out |-> 0, enabled |-> Some(FALSE), effect |-> None,
      filter |-> << >>, marker |-> << >>]}

Probes ==
    {<<"clipitem", it>> : it \in ProbeClips} \cup
    {<<"transitionitem", it>> : it \in ProbeTransitions} \cup
    {<<"generatoritem", it>> : it \in ProbeGenerators}

\* The track holding the probes ps, the n-th moved to 10 * (n - 1)
ProbeTrack(ps) ==
    LET placed(n) == [ps[n][2] EXCEPT !.start = @ + 10 * (n - 1),
                                      !.end = @ + 10 * (n - 1)]
        list(l) ==
            LET mine == SelectSeq([n \in 1..Len(ps) |-> n], LAMBDA n : ps[n][1] = l)
            IN  [m \in 1..Len(mine) |-> placed(mine[m])]
    IN  [enabled |-> None, clipitem |-> list("clipitem"),
         transitionitem |-> list("transitionitem"),
         generatoritem |-> list("generatoritem")]

ProbeStreams ==
    {FileOf([version |-> "5",
             sequence |-> <<SequenceOf("Items", <<ProbeTrack(ps)>>, << >>)>>]) :
        ps \in SeqUpTo(Probes, MaxProbes)}

\* fcp7xml -i x -o y, then fcp7xml -i y -o z
InitItems ==
    /\ timeline = None
    /\ stream \in ProbeStreams
    /\ err = ""
    /\ todo = <<"Decode", "Encode", "Decode", "Encode">>
    /\ hist = << >>
    /\ rejects = {}
    /\ NoCalls

SpecItems == InitItems /\ [][Next]_vars

\* ------------------------------------------------ clip translation (C21)

\* The effective rate of a schema rate: its timebase, or timebase * 1000 /
\* 1001 when its ntsc flag is set
EffectiveRate(rate) ==
    IF rate.ntsc THEN [n |-> rate.timebase * 1000, d |-> 1001]
    ELSE [n |-> rate.timebase, d |-> 1]

\* The document a Decode call read
DocumentRead(h) == Get(Unmarshal(h.stream))

\* The clips of a decoded track that stand for the clip item it
ClipsFor(it, track) ==
    {k \in 1..Len(track.children) :
        /\ track.children[k].type = "Clip"
        /\ track.children[k].name = it.name}

\* C21: Clip translation.  For every clip item the decoded clip's source
\* range starts at in and has duration out - in, both at the item's own
\* effective rate, whatever the sequence rate and the item's duration,
\* start and end fields.
C21_ClipTranslation ==
    \A i \in 1..Len(hist) :
        (hist[i].op = "Decode" /\ hist[i].err = "") =>
            LET x == DocTracks(DocumentRead(hist[i]))
                t == Get(hist[i].timeline).tracks
            IN  \A j \in 1..Len(x) :
                    \A n \in 1..Len(x[j].clipitem) :
                        LET it == x[j].clipitem[n]
                            r  == EffectiveRate(it.rate)
                        IN  /\ ClipsFor(it, t[j]) # {}
                            /\ \A k \in ClipsFor(it, t[j]) :
                                  t[j].children[k].source_range =
                                      <<[start_time |-> [value |-> [num |-> it.in, den |-> 1],
                                                         rate |-> r],
                                         duration   |-> [value |-> [num |-> it.out - it.in,
                                                                    den |-> 1],
                                                         rate |-> r]]>>

\* the clip item k1 (24 fps in a 29.97 sequence, in 3, out 13, duration
\* 100, start 0, end 7) decoded to a clip of 10 frames from 3 at 24
C21_Witness ==
    /\ hist # << >> /\ hist[1].op = "Decode" /\ hist[1].err = ""
    /\ LET x == DocTracks(DocumentRead(hist[1]))[1]
           c == Get(hist[1].timeline).tracks[1].children
       IN  /\ Len(x.clipitem) = 1 /\ x.clipitem[1].name = "k1"
           /\ DocumentRead(hist[1]).sequence[1].rate = NTSC30
           /\ Len(c) = 1
           /\ Get(c[1].source_range).start_time.value = Whole(3)
           /\ Get(c[1].source_range).duration.value = Whole(10)
           /\ Get(c[1].source_range).duration.rate = FPS(24, 1)

\* ------------------------------------- media reference on decode (C22)

Digits == {"0", "1", "2", "3", "4", "5", "6", "7", "8", "9"}

\* name holds a run of four or more '#'
HasHashRun(name) ==
    \E i \in 1..Len(name) :
        i + 3 <= Len(name) /\ \A k \in i..(i + 3) : name[k] = "#"

\* name holds %0Nd, N being one or two digits
HasPrintfPlaceholder(name) ==
    \E i \in 1..Len(name) : \E w \in 1..2 :
        /\ i + w + 2 <= Len(name)
        /\ name[i] = "%" /\ name[i + 1] = "0"
        /\ \A k \in (i + 2)..(i + w + 1) : name[k] \in Digits
        /\ name[i + w + 2] = "d"

\* The media reference the clip item it is to get
Classified(it, ref) ==
    IF it.file = None \/ Get(it.file).pathurl = EmptyURL
    THEN ref.kind = "MissingReference"
    ELSE LET file == Get(it.file)
             r    == EffectiveRate(it.rate)
         IN  IF HasHashRun(file.name) \/ HasPrintfPlaceholder(file.name)
             THEN ref.kind = "ImageSequenceReference"
             ELSE /\ ref.kind = "ExternalReference"
                  /\ ref.target_url = file.pathurl
                  /\ ref.available_range =
                         <<[start_time |-> [value |-> [num |-> 0, den |-> 1], rate |-> r],
                            duration   |-> [value |-> [num |-> file.duration, den |-> 1],
                                            rate |-> r]]>>

\* The clip items named are classified as stated
ClassifiedAll(names) ==
    \A i \in 1..Len(hist) :
        (hist[i].op = "Decode" /\ hist[i].err = "") =>
            LET x == DocTracks(DocumentRead(hist[i]))
                t == Get(hist[i].timeline).tracks
            IN  \A j \in 1..Len(x) :
                    \A n \in 1..Len(x[j].clipitem) :
                        LET it == x[j].clipitem[n]
                        IN  (it.sequence = None /\ it.name \in names) =>
                                \A k \in ClipsFor(it, t[j]) :
                                    Classified(it, Get(t[j].children[k].media_reference))

\* C22: Media reference classification on decode.  A clip item with no
\* file element or with an empty path URL gets a missing reference;
\* otherwise it gets an image-sequence reference if and only if the file
\* name holds a run of four or more '#' or a %0Nd placeholder, anywhere in
\* the name, its end included, and otherwise an external reference to the
\* path URL with available range [0, file duration) at the clip's rate.
C22_ReferenceClassification ==
    ClassifiedAll({it.name : it \in ProbeClips})

\* ------------------------------------------------ nested sequences (C23)

\* The placeholder clips of a timeline: [track, index]
Placeholders(t) ==
    {<<j, k>> \in (1..Len(t.tracks)) \X (1..MaxProbes) :
        /\ k <= Len(t.tracks[j].children)
        /\ Has(t.tracks[j].children[k].metadata, "fcp7xml_nested_sequence")}

\* The clip item it, which embeds a sequence, gave one placeholder clip
PlaceholderFor(it, track) ==
    /\ Cardinality(ClipsFor(it, track)) =
           Cardinality({n \in 1..Len(track.children) : track.children[n].name = it.name})
    /\ \A k \in ClipsFor(it, track) :
          LET c == track.children[k]
          IN  /\ c.media_reference = Some(NewMissingReference)
              /\ Get(c.source_range).start_time.value = Whole(it.in)
              /\ Get(c.source_range).duration.value = Whole(it.out - it.in)
              /\ Has(c.metadata, "fcp7xml_nested_sequence")
              /\ c.metadata.fcp7xml_nested_sequence = TRUE
              /\ Has(c.metadata, "fcp7xml_sequence_name")
              /\ c.metadata.fcp7xml_sequence_name = Get(it.sequence).name

\* What of C23 the first decode is to give
NestedDecoded ==
    \A i \in 1..Len(hist) :
        (hist[i].op = "Decode" /\ hist[i].err = "") =>
            LET x == DocTracks(DocumentRead(hist[i]))
                t == Get(hist[i].timeline).tracks
            IN  \A j \in 1..Len(x) :
                    \A n \in 1..Len(x[j].clipitem) :
                        x[j].clipitem[n].sequence # None =>
                            PlaceholderFor(x[j].clipitem[n], t[j])

\* C23: Nested sequences.  A clip item that embeds a sequence yields one
\* placeholder clip with a missing media reference, source range
\* [in, out - in), metadata fcp7xml_nested_sequence = true and
\* fcp7xml_sequence_name = the nested sequence's name, and these two
\* metadata values are still there after decode, encode, decode.
C23_NestedSequence ==
    /\ NestedDecoded
    /\ (Len(hist) >= 3 /\ hist[3].op = "Decode" /\ hist[3].err = "") =>
           LET t == Get(hist[1].timeline)
               u == Get(hist[3].timeline)
           IN  \A p \in Placeholders(t) :
                   \E q \in Placeholders(u) :
                       LET c == t.tracks[p[1]].children[p[2]]
                           d == u.tracks[q[1]].children[q[2]]
                       IN  /\ d.name = c.name
                           /\ d.metadata.fcp7xml_nested_sequence = TRUE
                           /\ Has(d.metadata, "fcp7xml_sequence_name")
                           /\ d.metadata.fcp7xml_sequence_name =
                                  c.metadata.fcp7xml_sequence_name

\* ------------------------------------------ transition translation (C24)

\* The children of a decoded track that stand for the transition item it
TransitionsFor(it, track) ==
    {k \in 1..Len(track.children) :
        /\ track.children[k].type = "Transition"
        /\ track.children[k].name = it.name}

\* a + b of two rationals is the whole number n
SumIs(a, b, n) == a.num * b.den + b.num * a.den = n * a.den * b.den

\* The transition tr is what the transition item it is to decode to
TransitionOf(it, tr) ==
    LET half == [value |-> [num |-> it.end - it.start, den |-> 2],
                 rate  |-> EffectiveRate(it.rate)]
    IN  /\ tr.in_offset = half
        /\ tr.out_offset = half
        /\ SumIs(tr.in_offset.value, tr.out_offset.value, it.end - it.start)
        /\ Has(tr.metadata, "fcp7xml_alignment")
        /\ tr.metadata.fcp7xml_alignment = it.alignment
        /\ Has(tr.metadata, "fcp7xml_effect") <=> it.effect # None
        /\ it.effect # None => tr.metadata.fcp7xml_effect = effectToMetadata(Get(it.effect))

\* C24: Transition translation.  Every transition item decodes to a
\* transition whose in-offset and out-offset are both (end - start)/2 at
\* the item's rate, their sum being end - start also when that is odd; its
\* alignment is kept in fcp7xml_alignment and its effect in fcp7xml_effect;
\* re-encoding emits a transition item with the same end - start and the
\* same alignment.
C24_TransitionTranslation ==
    \A i \in 1..Len(hist) :
        (hist[i].op = "Decode" /\ hist[i].err = "") =>
            LET x == DocTracks(DocumentRead(hist[i]))
                t == Get(hist[i].timeline).tracks
            IN  \A j \in 1..Len(x) :
                    \A n \in 1..Len(x[j].transitionitem) :
                        LET it == x[j].transitionitem[n]
                        IN  /\ TransitionsFor(it, t[j]) # {}
                            /\ \A k \in TransitionsFor(it, t[j]) :
                                  TransitionOf(it, t[j].children[k])
                            /\ (Len(hist) > i /\ hist[i + 1].err = "") =>
                                  LET y == DocTracks(Written(hist[i + 1]))
                                  IN  /\ Len(y[j].transitionitem) = Len(x[j].transitionitem)
                                      /\ \E m \in 1..Len(y[j].transitionitem) :
                                            y[j].transitionitem[m].name = it.name
                                      /\ \A m \in 1..Len(y[j].transitionitem) :
                                            LET ot == y[j].transitionitem[m]
                                            IN  ot.name = it.name =>
                                                   /\ ot.end - ot.start = it.end - it.start
                                                   /\ ot.alignment = it.alignment

\* the transition item x2 of 5 frames, aligned end-black, decoded to
\* offsets of 5/2 each and was written again with 5 frames and end-black
C24_Witness ==
    /\ Len(hist) >= 2 /\ hist[1].op = "Decode" /\ hist[2].op = "Encode" /\ hist[2].err = ""
    /\ LET x == DocTracks(DocumentRead(hist[1]))[1]
           c == Get(hist[1].timeline).tracks[1].children
           y == DocTracks(Written(hist[2]))[1]
       IN  /\ Len(x.transitionitem) = 1 /\ x.transitionitem[1].name = "x2"
           /\ x.transitionitem[1].end - x.transitionitem[1].start = 5
           /\ Len(x.clipitem) = 1 /\ x.clipitem[1].start = 0
           /\ c[2].type = "Transition"
           /\ c[2].in_offset.value = [num |-> 5, den |-> 2]
           /\ y.transitionitem[1].end - y.transitionitem[1].start = 5
           /\ y.transitionitem[1].alignment = "end-black"

\* -------------------------------------------- generator routing (C25)

\* A clip, a clip flagged as a generator, and a clip whose flag is false
RoutingChildren ==
    {NewClip("Plain", VideoMov, Some(Frames(0, 50, R24)), << >>),
     [NewClip("Slug", NewMissingReference, Some(Frames(2, 20, R24)), << >>)
         EXCEPT !.metadata = "fcp7xml_generator" :> TRUE],
     [NewClip("Unflagged", NewMissingReference, Some(Frames(4, 30, R24)), << >>)
         EXCEPT !.metadata = "fcp7xml_generator" :> FALSE]}

RoutingTimelines ==
    {BuildTimeline("Routing", <<"Video">>, [i \in 1..Len(cs) |-> <<cs[i], 1>>]) :
        cs \in SeqUpTo(RoutingChildren, MaxProbes)}

\* A document to decode and encode, or a timeline to encode and decode
InitRouting ==
    \/ InitItems
    \/ /\ timeline \in {Some(t) : t \in RoutingTimelines}
       /\ stream = << >>
       /\ err = ""
       /\ todo = <<"Encode", "Decode">>
       /\ hist = << >>
       /\ rejects = {}
       /\ NoCalls

SpecRouting == InitRouting /\ [][Next]_vars

\* The names of the items of a list
NamesOf(items) == [n \in 1..Len(items) |-> items[n].name]

\* The clips of a track whose metadata holds fcp7xml_generator = true, or
\* the other clips
ClipsFlagged(track, flagged) ==
    SelectSeq(track.children,
              LAMBDA c : /\ c.type = "Clip"
                         /\ flagged <=> (/\ Has(c.metadata, "fcp7xml_generator")
                                         /\ c.metadata.fcp7xml_generator = TRUE))

\* A generator item decodes to a clip with a generator reference and the flag
GeneratorsDecoded(x, t) ==
    \A j \in 1..Len(x) :
        \A n \in 1..Len(x[j].generatoritem) :
            LET it   == x[j].generatoritem[n]
                mine == {k \in 1..Len(t[j].children) : t[j].children[k].name = it.name}
            IN  /\ mine # {}
                /\ \A k \in mine :
                      LET c == t[j].children[k]
                      IN  /\ c.type = "Clip"
                          /\ Get(c.media_reference).kind = "GeneratorReference"
                          /\ Has(c.metadata, "fcp7xml_generator")
                          /\ c.metadata.fcp7xml_generator = TRUE

\* The encoder's two lists hold the flagged and the other clips, in order
Routed(t, y) ==
    \A j \in 1..Len(y) :
        /\ NamesOf(y[j].generatoritem) = NamesOf(ClipsFlagged(t[j], TRUE))
        /\ NamesOf(y[j].clipitem) = NamesOf(ClipsFlagged(t[j], FALSE))

\* Every item of x is in y in the list it was in
SameLists(x, y) ==
    \A j \in 1..Len(x) :
        /\ Len(y[j].generatoritem) = Len(x[j].generatoritem)
        /\ Len(y[j].clipitem) = Len(x[j].clipitem)
        /\ \A n \in 1..Len(x[j].generatoritem) :
              LET it == x[j].generatoritem[n]
              IN  /\ \E m \in 1..Len(y[j].generatoritem) :
                        LET ot == y[j].generatoritem[m]
                        IN  /\ ot.name = it.name /\ ot.in = it.in
                            /\ ot.duration = it.duration
                  /\ \A m \in 1..Len(y[j].clipitem) : y[j].clipitem[m].name # it.name
        /\ \A n \in 1..Len(x[j].clipitem) :
              /\ \E m \in 1..Len(y[j].clipitem) :
                    y[j].clipitem[m].name = x[j].clipitem[n].name
              /\ \A m \in 1..Len(y[j].generatoritem) :
                    y[j].generatoritem[m].name # x[j].clipitem[n].name

\* C25: Generator routing.  A generator item decodes to a clip with a
\* generator media reference and metadata fcp7xml_generator = true; the
\* encoder puts a clip in the generator list if and only if its metadata
\* holds fcp7xml_generator = true, otherwise in the clip list; so after
\* decode and encode every generator item is again a generator item with
\* the same name, in and duration, and every clip item again a clip item.
C25_GeneratorRouting ==
    \A i \in 1..Len(hist) :
        /\ (hist[i].op = "Decode" /\ hist[i].err = "") =>
               /\ GeneratorsDecoded(DocTracks(DocumentRead(hist[i])),
                                    Get(hist[i].timeline).tracks)
               /\ (Len(hist) > i /\ hist[i + 1].err = "") =>
                      SameLists(DocTracks(DocumentRead(hist[i])),
                                DocTracks(Written(hist[i + 1])))
        /\ (hist[i].op = "Encode" /\ hist[i].err = "") =>
               Routed(Get(hist[i].timeline).tracks, DocTracks(Written(hist[i])))

\* the generator item n1 (in 4, duration 10) came back as a generator item
C25_Witness ==
    /\ Len(hist) >= 2 /\ hist[1].op = "Decode" /\ hist[2].op = "Encode" /\ hist[2].err = ""
    /\ LET x == DocTracks(DocumentRead(hist[1]))[1]
           y == DocTracks(Written(hist[2]))[1]
       IN  /\ Len(x.generatoritem) = 1 /\ x.generatoritem[1].name = "n1"
           /\ Len(x.clipitem) = 1
           /\ Len(y.generatoritem) = 1 /\ y.generatoritem[1].name = "n1"
           /\ y.generatoritem[1].in = 4 /\ y.generatoritem[1].duration = 10
           /\ Len(y.clipitem) = 1

\* ---------------------------------------- lifting and lowering (C26)

\* The values of an int64 field: absent from the file (or -1, which FCP7
\* writes for "not set"), zero and positive
FrameValues == {-1, 0, 12}

ProbeParameters ==
    {[parameterid |-> "level", name |-> "Level", value |-> v, valueid |-> "",
      valuemin |-> lo, valuemax |-> Some(100), valuelist |-> l] :
        v \in {"", "50"}, lo \in {None, Some(0)}, l \in {"", "a,b"}}

ProbeEffects ==
    {[name |-> "Blur", effectid |-> "", effecttype |-> "filter", mediatype |-> "video",
      effectcategory |-> cat, duration |-> d, startratio |-> sr, endratio |-> None,
      reverse |-> rv, parameter |-> ps] :
        cat \in {"", "Dissolve"}, d \in FrameValues, sr \in {None, Some(0)},
        rv \in {None, Some(FALSE)},
        ps \in {<< >>} \cup {<<q>> : q \in ProbeParameters}}

ProbeFilters ==
    {[enabled |-> en, start |-> st, end |-> fin, effect |-> e] :
        en \in {None, Some(FALSE)}, st \in FrameValues, fin \in FrameValues,
        e \in {None, Some(BlurEffect)}}

\* Documents of one clip item carrying one effect or one filter
LiftStreams ==
    {FileOf([version |-> "5",
             sequence |-> <<SequenceOf("Lift",
                 <<[enabled |-> None,
                    clipitem |-> <<[ProbeClip("k1", Flat24, 3, 13, None, None)
                                      EXCEPT !.effect = ef[1], !.filter = ef[2]]>>,
                    transitionitem |-> << >>, generatoritem |-> << >>]>>, << >>)>>]) :
        ef \in {<<<<e>>, << >>>> : e \in ProbeEffects} \cup
               {<<<< >>, <<f>>>> : f \in ProbeFilters}}

InitLift ==
    /\ timeline = None
    /\ stream \in LiftStreams
    /\ err = ""
    /\ todo = <<"Decode", "Encode">>
    /\ hist = << >>
    /\ rejects = {}
    /\ NoCalls

SpecLift == InitLift /\ [][Next]_vars

\* The keys a lifted parameter, effect or filter may hold, given the value
ParameterKeys(q) ==
    {k \in {"parameterid", "name", "value", "valueid", "valuelist"} : q[k] # ""} \cup
    {k \in {"valuemin", "valuemax"} : q[k] # None}

EffectKeys(e) ==
    {"name", "effectid", "effecttype", "mediatype"} \cup
    {k \in {"effectcategory"} : e[k] # ""} \cup
    {k \in {"duration"} : e[k] # 0} \cup
    {k \in {"startratio", "endratio", "reverse"} : e[k] # None} \cup
    (IF e.parameter # << >> THEN {"parameters"} ELSE {})

FilterKeys(f) ==
    {k \in {"start", "end"} : f[k] # 0} \cup
    {k \in {"enabled", "effect"} : f[k] # None}

\* Lifting then lowering gives the value back, and the lifted map holds a
\* key for what the value has and for nothing else
EffectRestored(e) ==
    /\ metadataToEffect(effectToMetadata(e)) = e
    /\ DOMAIN effectToMetadata(e) = EffectKeys(e)
    /\ \A n \in 1..Len(e.parameter) :
          /\ metadataToParameter(parameterToMetadata(e.parameter[n])) = e.parameter[n]
          /\ DOMAIN parameterToMetadata(e.parameter[n]) = ParameterKeys(e.parameter[n])

FilterRestored(f) ==
    /\ metadataToFilters(filtersToMetadata(<<f>>)) = <<f>>
    /\ DOMAIN filtersToMetadata(<<f>>)[1] = FilterKeys(f)

\* The effects and filters of the clip items read satisfy P and Q, and are
\* written again as they were
LiftedAndLowered(P(_), Q(_), W(_)) ==
    \A i \in 1..Len(hist) :
        (hist[i].op = "Decode" /\ hist[i].err = "") =>
            LET x == DocTracks(DocumentRead(hist[i]))
            IN  \A j \in 1..Len(x) : \A n \in 1..Len(x[j].clipitem) :
                    LET it == x[j].clipitem[n]
                    IN  /\ \A m \in 1..Len(it.effect) : P(it.effect[m])
                        /\ \A m \in 1..Len(it.filter) : Q(it.filter[m])
                        /\ (W(it) /\ Len(hist) > i /\ hist[i + 1].err = "") =>
                              LET ot == DocTracks(Written(hist[i + 1]))[j].clipitem[n]
                              IN  ot.effect = it.effect /\ ot.filter = it.filter

\* C26: Lifting and lowering are inverse.  For every effect e, filter f and
\* parameter p of the schema, whatever the values of their fields and with
\* optional fields present or absent, metadataToEffect(effectToMetadata(e))
\* = e, metadataToFilters(filtersToMetadata([f])) = [f] and
\* metadataToParameter(parameterToMetadata(p)) = p, and an optional field
\* that is absent in the value has no key in the lifted map.
C26_LiftLowerInverse ==
    LiftedAndLowered(EffectRestored, FilterRestored, LAMBDA it : TRUE)

\* The same for the values whose frame fields are not negative
C26_NonNegativeRestored ==
    LiftedAndLowered(LAMBDA e : e.duration >= 0 => EffectRestored(e),
                     LAMBDA f : (f.start >= 0 /\ f.end >= 0) => FilterRestored(f),
                     LAMBDA it : /\ \A m \in 1..Len(it.effect) : it.effect[m].duration >= 0
                                 /\ \A m \in 1..Len(it.filter) :
                                       it.filter[m].start >= 0 /\ it.filter[m].end >= 0)

\* ------------------------------------------- metadata namespace (C27)

\* The keys of the decoder that start with "fcp7xml_" (a key is one value
\* here, so the keys with the prefix are listed)
VendorKeys ==
    {"fcp7xml_id", "fcp7xml_effects", "fcp7xml_filters", "fcp7xml_effect",
     "fcp7xml_alignment", "fcp7xml_generator", "fcp7xml_generator_name",
     "fcp7xml_nested_sequence", "fcp7xml_sequence_name", "fcp7xml_color",
     "fcp7xml_file_id"}

\* The top-level keys of the metadata of a child, of its media reference
\* and, when markers is TRUE, of its markers
KeysWritten(c, markers) ==
    DOMAIN c.metadata \cup
    (IF c.type = "Clip"
     THEN (IF c.media_reference # None
           THEN DOMAIN Get(c.media_reference).metadata ELSE {}) \cup
          (IF markers
           THEN UNION {DOMAIN c.markers[n].metadata : n \in 1..Len(c.markers)}
           ELSE {})
     ELSE {})

\* Every key written by a decode is a vendor key
Namespaced(markers) ==
    \A i \in 1..Len(hist) :
        (hist[i].op = "Decode" /\ hist[i].err = "") =>
            LET t == Get(hist[i].timeline).tracks
            IN  \A j \in 1..Len(t) : \A k \in 1..Len(t[j].children) :
                    KeysWritten(t[j].children[k], markers) \subseteq VendorKeys

\* C27: Metadata namespace.  Every key the decoder writes at the top level
\* of the metadata map of a clip, a transition, a marker or a media
\* reference starts with the vendor prefix "fcp7xml_".
C27_MetadataNamespace == Namespaced(TRUE)

\* The same, markers left aside
C27_NamespaceButMarkers == Namespaced(FALSE)

\* ------------------------------------------- order across kinds (C28)

\* Clips, transitions and generator-flagged clips, each with and without
\* length, and a gap
OrderChildren ==
    {NewClip("A", NewMissingReference, Some(Frames(0, 10, R24)), << >>),
     NewClip("Z", NewMissingReference, Some(Frames(0, 0, R24)), << >>),
     NewTransition("T", NewRationalTime(Whole(5), R24),
                   NewRationalTime(Whole(5), R24), EmptyDict),
     NewTransition("T0", NewRationalTime(Whole(0), R24),
                   NewRationalTime(Whole(0), R24), EmptyDict),
     [NewClip("G", NewMissingReference, Some(Frames(0, 10, R24)), << >>)
         EXCEPT !.metadata = "fcp7xml_generator" :> TRUE],
     [NewClip("G0", NewMissingReference, Some(Frames(0, 0, R24)), << >>)
         EXCEPT !.metadata = "fcp7xml_generator" :> TRUE],
     NewGapWithDuration(NewRationalTime(Whole(25), R24))}

OrderTimelines ==
    {BuildTimeline("Order", <<"Video">>, [i \in 1..Len(cs) |-> <<cs[i], 1>>]) :
        cs \in SeqUpTo(OrderChildren, MaxChildren)}

InitOrder ==
    /\ timeline \in {Some(t) : t \in OrderTimelines}
    /\ stream = << >>
    /\ err = ""
    /\ todo = <<"Encode", "Decode">>
    /\ hist = << >>
    /\ rejects = {}
    /\ NoCalls

SpecOrder == InitOrder /\ [][Next]_vars

\* The non-gap children of a track, in order
NonGaps(track) == SelectSeq(track.children, LAMBDA c : c.type # "Gap")

\* decode(encode(t)) has the non-gap children of t in their order, for the
\* timelines t of which ok is true
OrderKept(ok(_)) ==
    \A i \in EncodeDecodePairs :
        (hist[i + 1].err = "" /\ ok(Get(hist[i].timeline))) =>
            LET t == Get(hist[i].timeline).tracks
                d == Get(hist[i + 1].timeline).tracks
            IN  /\ Len(d) = Len(t)
                /\ \A j \in 1..Len(t) :
                      NamesOf(d[j].children) = NamesOf(NonGaps(t[j]))

\* C28: decode(encode(t)) preserves child order across kinds.  For any
\* track mixing clips, transitions and generator-flagged clips, gaps
\* allowed and items of zero duration included, the non-gap children of
\* the decoded track are in the same relative order as in t.
C28_OrderAcrossKinds == OrderKept(LAMBDA t : TRUE)

\* The same for the timelines without an item of zero duration
C28_OrderOfItemsWithLength ==
    OrderKept(LAMBDA t : \A j \in 1..Len(t.tracks) :
                             \A k \in 1..Len(t.tracks[j].children) :
                                 ChildFrames(t.tracks[j].children[k]) > 0)

\* ------------------------------------- media reference kinds (C29)

\* opentimelineio.NewGeneratorReference(name, name, nil, nil, nil)
NewGeneratorReference(name) ==
    [kind |-> "GeneratorReference", name |-> name, target_url |-> EmptyURL,
     available_range |-> None, metadata |-> EmptyDict]

\* A clip for every kind of media reference: external with a file URL,
\* external with a relative path, missing, generator (as the Decoder
\* makes it, flag included), image sequence
KindChildren ==
    {NewClip("External", VideoMov, Some(Frames(0, 50, R24)), << >>),
     NewClip("Relative",
             NewExternalReference(<<"v", ".", "m", "o", "v">>,
                                  [scheme |-> "", path |-> <<"video.mov">>],
                                  Some(Frames(0, 200, R24))),
             Some(Frames(0, 50, R24)), << >>),
     NewClip("Missing", NewMissingReference, Some(Frames(0, 50, R24)), << >>),
     [NewClip("Generator", NewGeneratorReference("Generator"),
              Some(Frames(0, 50, R24)), << >>)
         EXCEPT !.metadata = ("fcp7xml_generator" :> TRUE) @@
                             ("fcp7xml_generator_name" :> "Generator")],
     NewClip("Stills", StillsReference, Some(Frames(0, 40, R24)), << >>)}

KindTimelines ==
    {BuildTimeline("Kinds", <<"Video">>, [i \in 1..Len(cs) |-> <<cs[i], 1>>]) :
        cs \in SeqUpTo(KindChildren, MaxChildren)}

InitKinds ==
    /\ timeline \in {Some(t) : t \in KindTimelines}
    /\ stream = << >>
    /\ err = ""
    /\ todo = <<"Encode", "Decode">>
    /\ hist = << >>
    /\ rejects = {}
    /\ NoCalls

SpecKinds == InitKinds /\ [][Next]_vars

\* The reference d is of the kind of c and, for an external reference with
\* a target URL, has its name and URL
SameReference(c, d) ==
    /\ d.kind = c.kind
    /\ (c.kind = "ExternalReference" /\ c.target_url # EmptyURL) =>
           d.name = c.name /\ d.target_url = c.target_url

\* decode(encode(t)) keeps the media reference of the clips named
KindsKept(names) ==
    \A i \in EncodeDecodePairs :
        hist[i + 1].err = "" =>
            LET t == Get(hist[i].timeline).tracks
                d == Get(hist[i + 1].timeline).tracks
            IN  \A j \in 1..Len(t) : \A k \in 1..Len(t[j].children) :
                    LET c == t[j].children[k]
                    IN  (c.type = "Clip" /\ c.name \in names) =>
                            /\ \E n \in 1..Len(d[j].children) : d[j].children[n].name = c.name
                            /\ \A n \in 1..Len(d[j].children) :
                                  d[j].children[n].name = c.name =>
                                      /\ d[j].children[n].type = "Clip"
                                      /\ SameReference(Get(c.media_reference),
                                             Get(d[j].children[n].media_reference))

\* C29: decode(encode(t)) preserves the kind of every clip's media
\* reference: an external reference with a non-empty target URL comes back
\* external with the same name and URL, a missing reference missing, a
\* generator reference a generator reference, an image-sequence reference
\* an image-sequence reference.
C29_ReferenceKindKept ==
    KindsKept({c.name : c \in KindChildren})

\* The same for the external reference with a file URL, the missing and
\* the generator reference
C29_FileMissingGeneratorKept ==
    KindsKept({"External", "Missing", "Generator"})

\* ------------------------------------- idempotent normalization (C30)

\* What of an item of the list l a second pass is to leave as it is
ItemView(l, it) ==
    [name |-> it.name, start |-> it.start, end |-> it.end, rate |-> it.rate,
     in   |-> IF l = "transitionitem" THEN 0 ELSE it.in,
     out  |-> IF l = "transitionitem" THEN 0 ELSE it.out,
     file |-> IF l = "clipitem" THEN it.file ELSE None]

\* The items of a document: track by track, list by list, in order
DocumentView(x) ==
    LET tr == DocTracks(x)
    IN  [j \in 1..Len(tr) |->
            [l \in {"clipitem", "transitionitem", "generatoritem"} |->
                [n \in 1..Len(tr[j][l]) |-> ItemView(l, tr[j][l][n])]]]

\* The items of the document x whose length is zero, clip items by
\* out - in, transition items by end - start, generator items by duration
ZeroLengthItems(x) ==
    LET tr == DocTracks(x)
    IN  UNION {{it.name : it \in {c \in Range(tr[j].clipitem) : c.out = c.in}} \cup
               {it.name : it \in {c \in Range(tr[j].transitionitem) : c.end = c.start}} \cup
               {it.name : it \in {c \in Range(tr[j].generatoritem) : c.duration = 0}} :
               j \in 1..Len(tr)}

\* The clip items of the document x that decode to an image sequence
ImageSequenceItems(x) ==
    LET tr == DocTracks(x)
    IN  UNION {{it.name : it \in {c \in Range(tr[j].clipitem) :
                                     /\ c.sequence = None /\ c.file # None
                                     /\ Get(c.file).pathurl # EmptyURL
                                     /\ \/ HasHashPattern(Get(c.file).name)
                                        \/ HasPrintfPattern(Get(c.file).name)}} :
               j \in 1..Len(tr)}

\* For the documents x of which ok is true: with y = encode(decode(x)),
\* encode(decode(y)) has the items of y
SecondPassSame(ok(_)) ==
    (/\ Len(hist) = 4
     /\ \A i \in 1..4 : hist[i].err = ""
     /\ ok(DocumentRead(hist[1])))
        => DocumentView(Written(hist[4])) = DocumentView(Written(hist[2]))

\* C30: Normalization is idempotent.  For any document x that Decode
\* accepts, with y = encode(decode(x)), encode(decode(y)) = y: a second
\* pass changes no item's list, order, name, start, end, in, out, rate or
\* file element.
C30_NormalizationIdempotent == SecondPassSame(LAMBDA x : TRUE)

\* The same for the documents without an item of zero length and without
\* a file that decodes to an image sequence
C30_IdempotentOnPlainDocuments ==
    SecondPassSame(LAMBDA x : ZeroLengthItems(x) = {} /\ ImageSequenceItems(x) = {})

====
